---- MODULE Spec2Model ----
(***************************************************************************)
(* FastXmlReader (ext/fast_xml_reader/fast_xml_reader.c): the pull reader  *)
(* as a state machine.  The backing buffer is a sequence of byte values;   *)
(* offsets are 0-based as in the C code, so the byte at offset i of d is   *)
(* d[i + 1].  Pointers into the buffer are modelled as offsets, the null   *)
(* pointer as NULL.                                                        *)
(***************************************************************************)
EXTENDS Integers, Sequences, FiniteSets, TLC

VARIABLES
    doc,              \* the input as a sequence of fragment numbers (see Frag)
    data,             \* r->data: the buffer's bytes; <<>> when r->data is NULL
    size,             \* r->size
    pos,              \* r->pos
    depth,            \* r->depth
    report_depth,     \* r->report_depth
    node_type,        \* r->node_type
    is_empty,         \* r->is_empty
    name_ptr,         \* r->name_ptr, an offset into the buffer or NULL
    name_len,         \* r->name_len
    text_ptr,         \* r->text_ptr, an offset into the buffer or NULL
    text_len,         \* r->text_len
    text_has_entity,  \* r->text_has_entity
    attrs,            \* r->attrs[0 .. attr_count-1]
    attr_count,       \* r->attr_count
    call,             \* the method called last: "none", "read" or "close"
    ret,              \* what the last read() did: "none", "true", "false", "hang"
    node_pos,         \* offset at which the node reported last begins
    prev_ret,         \* what the read() before the last one did
    advances,         \* how many read() calls returned true
    closed,           \* whether close() was called
    source,           \* what the reader was opened on: "path" or "io"
    is_mmap,          \* r->is_mmap
    released,         \* the deallocator calls made on the buffer, in order
    freed,            \* whether the reader was destroyed (reader_free ran)
    decoded_text,     \* r->decoded_text: Qnil or the decoded string
    name_cache,       \* r->name_cache: its occupied slots, by their index
    strings,          \* how many strings intern_name made of each name so far
    out               \* the last result of name(), value(), attribute() or
                      \* decode_entities: val the value returned, gen which of
                      \* the strings made of these bytes by intern_name it is
                      \* (0 if none), made whether the call made that string,
                      \* uaf whether the call read bytes outside
                      \* the buffer held, src and len the slice it was made on

vars == <<doc, data, size, pos, depth, report_depth, node_type, is_empty,
          name_ptr, name_len, text_ptr, text_len, text_has_entity,
          attrs, attr_count, call, ret, prev_ret, node_pos, advances, closed,
          source, is_mmap, released, freed, decoded_text, name_cache, strings, out>>

-----------------------------------------------------------------------------
(* Bounds of the model.                                                    *)

\* longest input, in fragments, of the free-form and of the truncated inputs
MaxFrags == 3

\* longest input, in fragments, of the well-nested inputs
MaxNest == 5

\* longest run of one attribute repeated in a start tag
MaxFill == 34

\* most strings made of one name
MaxAllocs == 3

-----------------------------------------------------------------------------
(* Program constants: node types, the attribute cap, the byte literals.    *)

TYPE_ELEMENT == 1

TYPE_TEXT == 3

TYPE_END_ELEMENT == 15

MAX_ATTRS == 32

NAME_CACHE_SIZE == 512

NAME_CACHE_MASK == NAME_CACHE_SIZE - 1

\* slots intern_name looks at
PROBES == 8

NULL == -1

\* the position result of a loop that made no progress (it would not return)
HUNG == 0 - 2

\* Ruby values: nil, a string of bytes; and the process stopped by a read of
\* unmapped memory instead of a value
Qnil == [kind |-> "nil", bytes |-> <<>>]

Str(b) == [kind |-> "str", bytes |-> b]

Crash == [kind |-> "crash", bytes |-> <<>>]

TAB == 9

LF == 10

CR == 13

SP == 32

BANG == 33

DQUOTE == 34

AMP == 38

SQUOTE == 39

DASH == 45

SLASH == 47

COLON == 58

LT == 60

EQ == 61

GT == 62

QMARK == 63

LBRACKET == 91

RBRACKET == 93

HASH == 35

SEMI == 59

\* "![CDATA["
CDATA_OPEN == <<33, 91, 67, 68, 65, 84, 65, 91>>

\* "DOCTYPE"
DOCTYPE_WORD == <<68, 79, 67, 84, 89, 80, 69>>

\* "xmlns"
XMLNS == <<120, 109, 108, 110, 115>>

-----------------------------------------------------------------------------
(* libc and scanning helpers.                                              *)

At(d, i) == d[i + 1]

\* the bytes [off, off + len) of d
Slice(d, off, len) == SubSeq(d, off + 1, off + len)

\* memchr(d + from, c, n): offset of the first c in [from, from + n), or NULL
RECURSIVE Memchr(_, _, _, _)
Memchr(d, from, c, n) ==
    IF n <= 0 THEN NULL
    ELSE IF At(d, from) = c THEN from
    ELSE Memchr(d, from + 1, c, n - 1)

\* memcmp(d + off, lit, Len(lit)) == 0
MemEq(d, off, lit) == \A j \in 1..Len(lit) : At(d, off + j - 1) = lit[j]

at_end(p, sz) == p >= sz

IsSpace(c) == c \in {SP, TAB, LF, CR}

RECURSIVE skip_spaces(_, _, _)
skip_spaces(d, sz, p) ==
    IF p < sz /\ IsSpace(At(d, p)) THEN skip_spaces(d, sz, p + 1) ELSE p

\* the test of a text that takes no text for blank
is_blank_Never(d, start, len) == FALSE

is_blank(d, start, len) == \A i \in start..(start + len - 1) : IsSpace(At(d, i))

-----------------------------------------------------------------------------
(* decode_entities.  The code point cp of a numeric reference is an        *)
(* unsigned long in the code.  Here it is an integer, a negative one       *)
(* standing for cp + 2^64 (what a byte below '0' in a decimal reference    *)
(* wraps to); the references of the inputs are too short for another wrap. *)
(* The encoding looks at whether cp is below 2^16 and at its low 22 bits,  *)
(* so a cp of 2^22 or more, or a negative one, is kept by its low 22 bits. *)

\* "amp", "lt", "gt", "quot", "apos"
ENT_AMP == <<97, 109, 112>>

ENT_LT == <<108, 116>>

ENT_GT == <<103, 116>>

ENT_QUOT == <<113, 117, 111, 116>>

ENT_APOS == <<97, 112, 111, 115>>

\* cp in the range of the model's integers, with its low 22 bits and its sign
Low22(cp) ==
    IF cp >= 2 ^ 22 THEN 2 ^ 22 + (cp % (2 ^ 22))
    ELSE IF cp < 0 THEN (cp % (2 ^ 22)) - 2 ^ 22
    ELSE cp

\* what a byte of a hexadecimal reference adds to cp: nothing if no hex digit
HexDigit(c) ==
    IF c >= 48 /\ c <= 57 THEN c - 48
    ELSE IF c >= 97 /\ c <= 102 THEN c - 97 + 10
    ELSE IF c >= 65 /\ c <= 70 THEN c - 65 + 10
    ELSE 0

\* for (i = 2; i < elen; i++) { cp <<= 4; cp += digit; }
RECURSIVE HexCp(_, _, _, _, _)
HexCp(d, ename, i, elen, cp) ==
    IF i < elen
    THEN HexCp(d, ename, i + 1, elen, Low22(cp * 16 + HexDigit(At(d, ename + i))))
    ELSE cp

\* for (i = 1; i < elen; i++) cp = cp * 10 + (ename[i] - '0');
RECURSIVE DecCp(_, _, _, _, _)
DecCp(d, ename, i, elen, cp) ==
    IF i < elen
    THEN DecCp(d, ename, i + 1, elen, Low22(cp * 10 + (At(d, ename + i) - 48)))
    ELSE cp

\* bits lo .. lo + 5 of cp: (cp >> lo) & 0x3F
Bits6(cp, lo) == (cp % (2 ^ (lo + 6))) \div (2 ^ lo)

\* cp written in five bytes
Utf8_Five(cp) ==
    <<248, 128 + Bits6(cp, 18), 128 + Bits6(cp, 12), 128 + Bits6(cp, 6),
      128 + Bits6(cp, 0)>>

\* the UTF-8 bytes the code writes for cp
Utf8(cp) ==
    IF cp >= 0 /\ cp < 128 THEN <<cp>>
    ELSE IF cp >= 0 /\ cp < 2048 THEN <<192 + cp \div 64, 128 + Bits6(cp, 0)>>
    ELSE IF cp >= 0 /\ cp < 65536
    THEN <<224 + cp \div 4096, 128 + Bits6(cp, 6), 128 + Bits6(cp, 0)>>
    ELSE <<240 + (cp % (2 ^ 22)) \div (2 ^ 18),
           128 + Bits6(cp, 12), 128 + Bits6(cp, 6), 128 + Bits6(cp, 0)>>

\* the reference with its '&' and ';' copied as it is
Expand_Literal(d, amp, semi) == Slice(d, amp, semi - amp + 1)

\* what the reference [amp, semi] ("&...;") is replaced by
Expand(d, amp, semi) ==
    LET elen  == semi - amp - 1
        ename == amp + 1
    IN  IF elen = 3 /\ MemEq(d, ename, ENT_AMP) THEN <<AMP>>
        ELSE IF elen = 2 /\ MemEq(d, ename, ENT_LT) THEN <<LT>>
        ELSE IF elen = 2 /\ MemEq(d, ename, ENT_GT) THEN <<GT>>
        ELSE IF elen = 4 /\ MemEq(d, ename, ENT_QUOT) THEN <<DQUOTE>>
        ELSE IF elen = 4 /\ MemEq(d, ename, ENT_APOS) THEN <<SQUOTE>>
        ELSE IF elen > 1 /\ At(d, ename) = HASH
        THEN IF At(d, ename + 1) = 120 \/ At(d, ename + 1) = 88
             THEN Utf8(HexCp(d, ename, 2, elen, 0))
             ELSE Utf8(DecCp(d, ename, 1, elen, 0))
        ELSE Slice(d, amp, semi - amp + 1)

\* the cursor after a reference was expanded, left on the expansion's source
AfterRef_Rescan(amp, semi) == amp + 1

\* the cursor after a reference was expanded: p = semi + 1
AfterRef(amp, semi) == semi + 1

\* the slow path's loop: p the cursor, end the end of the source, buf the output
RECURSIVE decode_loop(_, _, _, _)
decode_loop(d, p, end, buf) ==
    IF ~(p < end) THEN buf
    ELSE
    LET amp == Memchr(d, p, AMP, end - p) IN
    IF amp = NULL THEN buf \o Slice(d, p, end - p)
    ELSE
    LET buf1 == buf \o Slice(d, p, amp - p)
        semi == Memchr(d, amp, SEMI, end - amp)
    IN  IF semi = NULL
        THEN decode_loop(d, amp + 1, end, buf1 \o <<AMP>>)
        ELSE decode_loop(d, AfterRef(amp, semi), end, buf1 \o Expand(d, amp, semi))

\* the copy made when the source has no '&', cut one byte short
FastPath_Short(d, src, len) == Slice(d, src, len - 1)

\* the copy made when the source has no '&'
FastPath(d, src, len) == Slice(d, src, len)

\* decode_entities(r, d + src, len)
decode_entities(d, src, len) ==
    IF Memchr(d, src, AMP, len) = NULL
    THEN FastPath(d, src, len)
    ELSE decode_loop(d, src, src + len, <<>>)

-----------------------------------------------------------------------------
(* The skippers.  Each takes the cursor and returns the new cursor.  fuel  *)
(* counts the iterations left to a loop: a loop over a buffer of sz bytes  *)
(* that moves the cursor forward in every iteration ends within sz + 1 of  *)
(* them, and one that runs out of fuel is reported as HUNG.                *)

Fuel(sz) == sz + 1

\* the iteration that leaves the cursor on the '-' it found
CommentStep_Stay(m) == m

\* the cursor after one more iteration of skip_comment's loop that found no "-->"
CommentStep(m) == m + 1

RECURSIVE skip_comment_loop(_, _, _, _)
skip_comment_loop(d, sz, p, fuel) ==
    IF ~(p + 2 < sz) THEN sz
    ELSE IF fuel = 0 THEN HUNG
    ELSE LET m == Memchr(d, p, DASH, sz - p - 1)
         IN  IF m = NULL THEN sz
             ELSE IF m + 2 < sz /\ At(d, m) = DASH /\ At(d, m + 1) = DASH
                                /\ At(d, m + 2) = GT
                  THEN m + 3
                  ELSE skip_comment_loop(d, sz, CommentStep(m), fuel - 1)

skip_comment(d, sz, p) == skip_comment_loop(d, sz, p, Fuel(sz))

RECURSIVE skip_pi_loop(_, _, _, _)
skip_pi_loop(d, sz, p, fuel) ==
    IF ~(p + 1 < sz) THEN sz
    ELSE IF fuel = 0 THEN HUNG
    ELSE LET m == Memchr(d, p, QMARK, sz - p - 1)
         IN  IF m = NULL THEN sz
             ELSE IF At(d, m + 1) = GT
                  THEN m + 2
                  ELSE skip_pi_loop(d, sz, m + 1, fuel - 1)

skip_pi(d, sz, p) == skip_pi_loop(d, sz, p, Fuel(sz))

RECURSIVE skip_cdata_loop(_, _, _, _)
skip_cdata_loop(d, sz, p, fuel) ==
    IF ~(p + 2 < sz) THEN sz
    ELSE IF fuel = 0 THEN HUNG
    ELSE LET m == Memchr(d, p, RBRACKET, sz - p - 2)
         IN  IF m = NULL THEN sz
             ELSE IF At(d, m + 1) = RBRACKET /\ At(d, m + 2) = GT
                  THEN m + 3
                  ELSE skip_cdata_loop(d, sz, m + 1, fuel - 1)

skip_cdata(d, sz, p) == skip_cdata_loop(d, sz, p, Fuel(sz))

RECURSIVE skip_doctype_loop(_, _, _, _)
skip_doctype_loop(d, sz, p, bracket_depth) ==
    IF ~(p < sz) THEN p
    ELSE LET c == At(d, p)
         IN  IF c = LBRACKET THEN skip_doctype_loop(d, sz, p + 1, bracket_depth + 1)
             ELSE IF c = RBRACKET THEN skip_doctype_loop(d, sz, p + 1, bracket_depth - 1)
             ELSE IF c = GT /\ bracket_depth = 0 THEN p + 1
             ELSE skip_doctype_loop(d, sz, p + 1, bracket_depth)

skip_doctype(d, sz, p) == skip_doctype_loop(d, sz, p, 0)

-----------------------------------------------------------------------------
(* parse_attrs: the attribute table and the tag's terminator.              *)

IsAttrNameEnd(c) == c = EQ \/ IsSpace(c) \/ c = GT \/ c = SLASH

RECURSIVE scan_attr_name(_, _, _)
scan_attr_name(d, sz, p) ==
    IF p < sz /\ ~IsAttrNameEnd(At(d, p)) THEN scan_attr_name(d, sz, p + 1) ELSE p

\* no attribute taken for a namespace declaration
IsXmlns_Never(d, name_start, nlen) == FALSE

\* the test that drops a namespace declaration (xmlns, xmlns:*)
IsXmlns(d, name_start, nlen) ==
    /\ nlen >= 5
    /\ MemEq(d, name_start, XMLNS)
    /\ (nlen = 5 \/ At(d, name_start + 5) = COLON)

\* the attribute appended whatever the table holds
AddAttr_Unbounded(tab, a) == Append(tab, a)

\* the table after an attribute was parsed: appended below the cap, else dropped
AddAttr(tab, a) == IF Len(tab) < MAX_ATTRS THEN Append(tab, a) ELSE tab

\* SlashEnd taking the byte after the '/' for a '>' without looking
SlashEnd_NoBoundsCheck(d, sz, p, tab) ==
    [pos |-> p + 2, is_empty |-> 1, attrs |-> tab]

\* SlashEnd with the element not marked empty
SlashEnd_NotEmpty(d, sz, p, tab) ==
    [pos |-> IF p + 1 < sz /\ At(d, p + 1) = GT THEN p + 2 ELSE p + 1,
     is_empty |-> 0, attrs |-> tab]

\* what parse_attrs does at a '/': the element is marked empty, the '/' is
\* consumed, and a '>' right after it too
SlashEnd(d, sz, p, tab) ==
    [pos |-> IF p + 1 < sz /\ At(d, p + 1) = GT THEN p + 2 ELSE p + 1,
     is_empty |-> 1, attrs |-> tab]

\* the '>' left unconsumed
GtEnd_Stay(p, tab) == [pos |-> p, is_empty |-> 0, attrs |-> tab]

\* what parse_attrs does at a '>': it is consumed and the tag ends
GtEnd(p, tab) == [pos |-> p + 1, is_empty |-> 0, attrs |-> tab]

\* one iteration of parse_attrs' loop, from the cursor p with the table tab:
\* the cursor, is_empty and the table it leaves, and in done whether the
\* iteration returns from parse_attrs
attr_step(d, sz, p, tab) ==
    LET p1 == skip_spaces(d, sz, p) IN
    IF at_end(p1, sz) THEN [done |-> TRUE, pos |-> p1, is_empty |-> 0, attrs |-> tab]
    ELSE IF At(d, p1) = GT
    THEN [done |-> TRUE] @@ GtEnd(p1, tab)
    ELSE IF At(d, p1) = SLASH
    THEN [done |-> TRUE] @@ SlashEnd(d, sz, p1, tab)
    ELSE
    LET name_start == p1
        name_end   == scan_attr_name(d, sz, p1)
        p2         == skip_spaces(d, sz, name_end)
    IN
    IF at_end(p2, sz) \/ At(d, p2) # EQ
    THEN [done |-> FALSE, pos |-> p2, is_empty |-> 0, attrs |-> tab]
    ELSE
    LET p3 == skip_spaces(d, sz, p2 + 1) IN
    IF at_end(p3, sz) THEN [done |-> TRUE, pos |-> p3, is_empty |-> 0, attrs |-> tab]
    ELSE
    LET quote == At(d, p3) IN
    IF quote # DQUOTE /\ quote # SQUOTE
    THEN [done |-> FALSE, pos |-> p3, is_empty |-> 0, attrs |-> tab]
    ELSE
    LET val_start == p3 + 1
        q         == Memchr(d, val_start, quote, sz - val_start)
    IN
    IF q = NULL THEN [done |-> TRUE, pos |-> sz, is_empty |-> 0, attrs |-> tab]
    ELSE
    LET val_end    == q
        has_entity == IF Memchr(d, val_start, AMP, val_end - val_start) # NULL
                      THEN 1 ELSE 0
        nlen       == name_end - name_start
        a          == [name_ptr |-> name_start, name_len |-> nlen,
                       val_ptr |-> val_start, val_len |-> val_end - val_start,
                       val_has_entity |-> has_entity]
    IN
    IF IsXmlns(d, name_start, nlen)
    THEN [done |-> FALSE, pos |-> val_end + 1, is_empty |-> 0, attrs |-> tab]
    ELSE [done |-> FALSE, pos |-> val_end + 1, is_empty |-> 0,
          attrs |-> AddAttr(tab, a)]

RECURSIVE parse_attrs_loop(_, _, _, _, _)
RECURSIVE parse_attrs_next(_, _, _, _)

\* while (r->pos < r->size), with fuel as for the skippers
parse_attrs_loop(d, sz, p, tab, fuel) ==
    IF ~(p < sz) THEN [pos |-> p, is_empty |-> 0, attrs |-> tab]
    ELSE IF fuel = 0 THEN [pos |-> HUNG, is_empty |-> 0, attrs |-> tab]
    ELSE parse_attrs_next(d, sz, attr_step(d, sz, p, tab), fuel)

\* after the iteration st: return, or go on with the loop
parse_attrs_next(d, sz, st, fuel) ==
    IF st.done THEN [pos |-> st.pos, is_empty |-> st.is_empty, attrs |-> st.attrs]
    ELSE parse_attrs_loop(d, sz, st.pos, st.attrs, fuel - 1)

parse_attrs(d, sz, p) == parse_attrs_loop(d, sz, p, <<>>, Fuel(sz))

-----------------------------------------------------------------------------
(* reader_read_internal.  cur is the reader's fields as the call goes on,  *)
(* with ret the call's result and node_pos the offset the node began at.   *)

IsNameEnd(c) == IsSpace(c) \/ c = GT \/ c = SLASH

RECURSIVE scan_name(_, _, _)
scan_name(d, sz, p) ==
    IF p < sz /\ ~IsNameEnd(At(d, p)) THEN scan_name(d, sz, p + 1) ELSE p

\* no prefix stripped
StripPrefix_None(d, nptr, nlen) == [ptr |-> nptr, len |-> nlen]

\* strip the namespace prefix of the name [nptr, nptr + nlen): the bytes up to
\* and including the first ':'
StripPrefix(d, nptr, nlen) ==
    LET colon == Memchr(d, nptr, COLON, nlen)
    IN  IF colon # NULL
        THEN [ptr |-> colon + 1, len |-> nlen - ((colon - nptr) + 1)]
        ELSE [ptr |-> nptr, len |-> nlen]

\* no trimming
TrimTrailing_None(d, nptr, len) == len

\* trim trailing bytes <= ' '
RECURSIVE TrimTrailing(_, _, _)
TrimTrailing(d, nptr, len) ==
    IF len > 0 /\ At(d, nptr + len - 1) <= SP
    THEN TrimTrailing(d, nptr, len - 1)
    ELSE len

\* the decrement without the floor at 0
EndDepth_NoFloor(dep) == dep - 1

\* the depth after an end tag: if (r->depth > 0) r->depth--
EndDepth(dep) == IF dep > 0 THEN dep - 1 ELSE dep

\* the end tag reported before the decrement
EndReportDepth_Before(dep) == dep

\* the depth an end tag is reported at, given the depth before it:
\* r->report_depth = r->depth, after the decrement
EndReportDepth(dep) == EndDepth(dep)

\* the depth raised for an empty element too
StartDepth_Always(dep, empty) == dep + 1

\* the depth after a start tag: if (!r->is_empty) r->depth++
StartDepth(dep, empty) == IF empty = 0 THEN dep + 1 ELSE dep

\* the cursor left right after "</"
UnterminatedEnd_Stay(sz, p) == p

\* the cursor after an end tag with no '>': r->pos = r->size
UnterminatedEnd(sz, p) == sz

\* End element; p is the offset right after "</" and lt the offset of the '<'
EndElement(d, sz, p, lt, cur) ==
    LET name_start == p
        gt         == Memchr(d, p, GT, sz - p)
    IN
    IF gt = NULL
    THEN [cur EXCEPT !.pos = UnterminatedEnd(sz, p), !.ret = "false"]
    ELSE
    LET raw_len == gt - name_start
        nm      == StripPrefix(d, name_start, raw_len)
        len     == TrimTrailing(d, nm.ptr, nm.len)
    IN  [cur EXCEPT !.pos = gt + 1,
                    !.name_ptr = nm.ptr,
                    !.name_len = len,
                    !.node_type = TYPE_END_ELEMENT,
                    !.is_empty = 0,
                    !.depth = EndDepth(cur.depth),
                    !.report_depth = EndReportDepth(cur.depth),
                    !.ret = "true",
                    !.node_pos = lt]

\* whether the closing name [cptr, cptr + clen) equals the start tag's local name
SameName(d, cptr, clen, nptr, nlen) ==
    clen = nlen /\ Slice(d, cptr, nlen) = Slice(d, nptr, nlen)

\* a failed peek that leaves the cursor where it looked, after the "</"
Restore_AtPeek(saved, peek) == peek

\* the cursor after a peek that found no matching end tag: r->pos = saved
Restore(saved, peek) == saved

\* The self-closing collapse of a start tag that is not empty; saved is the
\* offset right after the start tag, [nptr, nptr + nlen) its local name.
Collapse(d, sz, saved, nptr, nlen) ==
    IF saved + 1 < sz /\ At(d, saved) = LT /\ At(d, saved + 1) = SLASH
    THEN LET peek == saved + 2
             gt   == Memchr(d, peek, GT, sz - peek)
         IN  IF gt # NULL
             THEN LET cn   == StripPrefix(d, peek, gt - peek)
                      clen == TrimTrailing(d, cn.ptr, cn.len)
                  IN  IF SameName(d, cn.ptr, clen, nptr, nlen)
                      THEN [is_empty |-> 1, pos |-> gt + 1]
                      ELSE [is_empty |-> 0, pos |-> Restore(saved, peek)]
             ELSE [is_empty |-> 0, pos |-> Restore(saved, peek)]
    ELSE [is_empty |-> 0, pos |-> saved]

\* Start element; p is the offset right after the '<'
StartElement(d, sz, p, cur) ==
    LET name_start == p
        name_end   == scan_name(d, sz, p)
        nm         == StripPrefix(d, name_start, name_end - name_start)
        pa         == parse_attrs(d, sz, name_end)
        co         == IF pa.is_empty = 0 /\ pa.pos # HUNG
                      THEN Collapse(d, sz, pa.pos, nm.ptr, nm.len)
                      ELSE [is_empty |-> pa.is_empty, pos |-> pa.pos]
    IN
    IF pa.pos = HUNG THEN [cur EXCEPT !.ret = "hang"]
    ELSE [cur EXCEPT !.pos = co.pos,
                     !.name_ptr = nm.ptr,
                     !.name_len = nm.len,
                     !.node_type = TYPE_ELEMENT,
                     !.attrs = pa.attrs,
                     !.attr_count = Len(pa.attrs),
                     !.is_empty = co.is_empty,
                     !.report_depth = cur.depth,
                     !.depth = StartDepth(cur.depth, co.is_empty),
                     !.ret = "true",
                     !.node_pos = p - 1]

\* the end of the text that starts at p: the next '<' or the end of the buffer
TextEnd(d, sz, p) ==
    LET lt == Memchr(d, p, LT, sz - p) IN IF lt # NULL THEN lt ELSE sz

\* Text content that is not blank, [text_start, text_end)
TextNode(d, text_start, text_end, cur) ==
    LET tlen == text_end - text_start
    IN  [cur EXCEPT !.pos = text_end,
                    !.node_type = TYPE_TEXT,
                    !.report_depth = cur.depth,
                    !.text_ptr = text_start,
                    !.text_len = tlen,
                    !.text_has_entity =
                        IF Memchr(d, text_start, AMP, tlen) # NULL THEN 1 ELSE 0,
                    !.is_empty = 0,
                    !.name_ptr = NULL,
                    !.name_len = 0,
                    !.ret = "true",
                    !.node_pos = text_start]

IsCommentOpen(d, sz, p) ==
    At(d, p) = BANG /\ p + 2 < sz /\ At(d, p + 1) = DASH /\ At(d, p + 2) = DASH

IsCdataOpen(d, sz, p) == At(d, p) = BANG /\ p + 7 < sz /\ MemEq(d, p, CDATA_OPEN)

IsDoctypeOpen(d, sz, p) ==
    At(d, p) = BANG /\ p + 7 < sz /\ MemEq(d, p + 1, DOCTYPE_WORD)

\* the loop at the label again; fuel as for the skippers
RECURSIVE read_loop(_, _, _, _)
read_loop(d, sz, cur, fuel) ==
    LET again(q) == IF q = HUNG THEN [cur EXCEPT !.ret = "hang"]
                    ELSE read_loop(d, sz, [cur EXCEPT !.pos = q], fuel - 1)
        p == cur.pos + 1
    IN
    IF at_end(cur.pos, sz) THEN [cur EXCEPT !.ret = "false"]
    ELSE IF fuel = 0 THEN [cur EXCEPT !.ret = "hang"]
    ELSE IF At(d, cur.pos) = LT
    THEN IF at_end(p, sz) THEN [cur EXCEPT !.pos = p, !.ret = "false"]
         ELSE IF At(d, p) = SLASH THEN EndElement(d, sz, p + 1, cur.pos, cur)
         ELSE IF IsCommentOpen(d, sz, p) THEN again(skip_comment(d, sz, p + 3))
         ELSE IF IsCdataOpen(d, sz, p) THEN again(skip_cdata(d, sz, p + 8))
         ELSE IF IsDoctypeOpen(d, sz, p) THEN again(skip_doctype(d, sz, p + 8))
         ELSE IF At(d, p) = QMARK THEN again(skip_pi(d, sz, p + 1))
         ELSE StartElement(d, sz, p, cur)
    ELSE LET text_start == cur.pos
             text_end   == TextEnd(d, sz, cur.pos)
         IN  IF is_blank(d, text_start, text_end - text_start)
             THEN again(text_end)
             ELSE TextNode(d, text_start, text_end, cur)

\* the cached decoding kept from one node to the next
ResetDecoded_Keep(dtext) == dtext

\* r->decoded_text = Qnil
ResetDecoded(dtext) == Qnil

\* the whole call: the per-node reset, then the loop
reader_read_internal(d, sz, cur) ==
    read_loop(d, sz,
              [cur EXCEPT !.decoded_text = ResetDecoded(cur.decoded_text),
                          !.text_ptr = NULL, !.text_len = 0,
                          !.text_has_entity = 0, !.attrs = <<>>,
                          !.attr_count = 0],
              Fuel(sz))

\* the release without the test of r->data
Release_Unchecked(d, mm) == <<IF mm # 0 THEN "munmap" ELSE "xfree">>

\* the deallocator calls of reader_close and of reader_free on the buffer d:
\* none when r->data is NULL, else munmap or xfree as r->is_mmap says
Release(d, mm) ==
    IF d # <<>> THEN <<IF mm # 0 THEN "munmap" ELSE "xfree">> ELSE <<>>

\* close() that leaves r->data and r->size as they are
reader_close_Keep(d, sz) == [data |-> d, size |-> sz]

\* reader_close: what it leaves in r->data and r->size
reader_close(d, sz) ==
    IF d # <<>> THEN [data |-> <<>>, size |-> 0] ELSE [data |-> d, size |-> sz]

-----------------------------------------------------------------------------
(* intern_name.  A hash is an unsigned int of 32 bits, kept as its two     *)
(* halves of 16 bits, hi and lo.  A string made by intern_name is told     *)
(* from the others by its bytes and by gen, its number among the strings   *)
(* made of these bytes.  The cache is kept as the function from the index *)
(* of each occupied slot to what the slot holds; the other slots of        *)
(* name_cache[0 .. NAME_CACHE_SIZE-1] are empty.                           *)

\* a ^ b, bit by bit
RECURSIVE Xor(_, _)
Xor(a, b) ==
    IF a = 0 THEN b
    ELSE IF b = 0 THEN a
    ELSE ((a + b) % 2) + 2 * Xor(a \div 2, b \div 2)

\* 2166136261u, 0x811C9DC5
FNV_BASIS == [hi |-> 33052, lo |-> 40389]

\* h ^= c, c a byte
HashXor(h, c) == [hi |-> h.hi, lo |-> Xor(h.lo, c)]

\* h *= 16777619u: 16777619 is 2^24 + 403, and the product is cut to 32 bits
HashMul(h) ==
    [hi |-> (h.hi * 403 + (h.lo * 403) \div 65536 + (h.lo % 256) * 256) % 65536,
     lo |-> (h.lo * 403) % 65536]

RECURSIVE fnv1a_loop(_, _, _)
fnv1a_loop(name, i, h) ==
    IF i <= Len(name) THEN fnv1a_loop(name, i + 1, HashMul(HashXor(h, name[i]))) ELSE h

fnv1a(name) == fnv1a_loop(name, 1, FNV_BASIS)

\* h & NAME_CACHE_MASK
BucketOf(h) == h.lo % (NAME_CACHE_MASK + 1)

\* a slot whose ptr is NULL
EmptySlot == [bytes |-> <<>>, gen |-> 0]

IsEmptySlot(e) == e.gen = 0

\* r->name_cache[i]
SlotAt(cache, i) == IF i \in DOMAIN cache THEN cache[i] ELSE EmptySlot

\* the probe that stays at the first slot of the window
ProbeSlot_NoStep(idx, i) == idx % (NAME_CACHE_MASK + 1)

\* (idx + i) & NAME_CACHE_MASK
ProbeSlot(idx, i) == (idx + i) % (NAME_CACHE_MASK + 1)

\* the probe: the first slot of the window, from its i-th on, that is empty
\* or holds the name; NULL if there is none
RECURSIVE intern_probe(_, _, _, _)
intern_probe(cache, name, idx, i) ==
    IF ~(i < PROBES) THEN NULL
    ELSE LET e == SlotAt(cache, ProbeSlot(idx, i))
         IN  IF IsEmptySlot(e) \/ e.bytes = name THEN ProbeSlot(idx, i)
             ELSE intern_probe(cache, name, idx, i + 1)

\* the number of the next string made of the name
NewGen(strs, name) == IF name \in DOMAIN strs THEN strs[name] + 1 ELSE 1

\* the cache with a new string stored in an occupied slot too
StoreNew_Evict(cache, slot, idx, name, g) ==
    ((IF slot = NULL THEN idx ELSE slot) :> [bytes |-> name, gen |-> g]) @@ cache

\* the cache after a string was made: stored if the probe ended at an empty
\* slot, not stored if the window is full
StoreNew(cache, slot, idx, name, g) ==
    IF slot = NULL THEN cache ELSE (slot :> [bytes |-> name, gen |-> g]) @@ cache

\* intern_name on the name: the string it returns (val its bytes, gen which
\* one it is, made whether the call made it), the cache and the strings made
\* as it leaves them
intern_name(cache, strs, name) ==
    LET idx  == BucketOf(fnv1a(name))
        slot == intern_probe(cache, name, idx, 0)
    IN  IF slot # NULL /\ ~IsEmptySlot(SlotAt(cache, slot))
        THEN [val |-> Str(name), gen |-> SlotAt(cache, slot).gen, made |-> FALSE,
              name_cache |-> cache, strings |-> strs]
        ELSE [val |-> Str(name), gen |-> NewGen(strs, name), made |-> TRUE,
              name_cache |-> StoreNew(cache, slot, idx, name, NewGen(strs, name)),
              strings |-> (name :> NewGen(strs, name)) @@ strs]

-----------------------------------------------------------------------------
(* The accessors.  A Ruby value is Qnil or a string of bytes.  An accessor *)
(* that reads a slice outside the buffer held (a slice of a buffer that    *)
(* close() released) has undefined behaviour: the process may stop, or the *)
(* call sees what the released memory holds by then, its old bytes or      *)
(* others.  old is the released buffer's content.                          *)

\* whether reading the len bytes at ptr stays inside the buffer held
InBuffer(sz, ptr, len) == len = 0 \/ (ptr >= 0 /\ ptr + len <= sz)

\* released memory overwritten since
Zeroed(old) == [i \in 1..Len(old) |-> 0]

\* the memory a call sees: the buffer, or one of the states of released memory
Views(d, old, inside) == IF inside THEN {d} ELSE {old, Zeroed(old)}

\* the results of a call: rs holds, for each memory the call may see, what it
\* returns and what it leaves in r->decoded_text
Results(inside, rs) ==
    {[val |-> r.val, decoded_text |-> r.decoded_text, uaf |-> ~inside] : r \in rs}
        \cup (IF inside THEN {}
              ELSE {[val |-> Crash, decoded_text |-> Qnil, uaf |-> TRUE]})

\* reader_name: Qnil without a name, else what intern_name returns for it,
\* with the cache and the strings made as the call leaves them
reader_name(d, sz, old, nptr, nlen, cache, strs) ==
    LET same(v) == [val |-> v, gen |-> 0, made |-> FALSE,
                    name_cache |-> cache, strings |-> strs]
    IN  IF nptr = NULL \/ nlen = 0
        THEN {[uaf |-> FALSE] @@ same(Qnil)}
        ELSE LET inside == InBuffer(sz, nptr, nlen)
             IN  {[uaf |-> ~inside] @@ intern_name(cache, strs, Slice(m, nptr, nlen)) :
                     m \in Views(d, old, inside)}
                 \cup (IF inside THEN {} ELSE {[uaf |-> TRUE] @@ same(Crash)})

\* reader_value: each result with r->decoded_text as the call leaves it
reader_value(d, sz, old, tptr, tlen, has_entity, dtext) ==
    IF tptr = NULL \/ tlen = 0
    THEN {[val |-> Qnil, decoded_text |-> dtext, uaf |-> FALSE]}
    ELSE IF has_entity # 0
    THEN IF dtext # Qnil
         THEN {[val |-> dtext, decoded_text |-> dtext, uaf |-> FALSE]}
         ELSE LET inside == InBuffer(sz, tptr, tlen)
                  val(m) == Str(decode_entities(m, tptr, tlen))
              IN  Results(inside,
                          {[val |-> val(m), decoded_text |-> val(m)] :
                              m \in Views(d, old, inside)})
    ELSE LET inside == InBuffer(sz, tptr, tlen)
         IN  Results(inside,
                     {[val |-> Str(Slice(m, tptr, tlen)), decoded_text |-> dtext] :
                         m \in Views(d, old, inside)})

\* make_attr_value
make_attr_value(m, a) ==
    IF a.val_has_entity # 0
    THEN Str(decode_entities(m, a.val_ptr, a.val_len))
    ELSE Str(Slice(m, a.val_ptr, a.val_len))

\* the entries whose name has the needle's length: those memcmp is called on
SameLen(tab, count, needle) == {i \in 1..count : tab[i].name_len = Len(needle)}

\* index of the first entry of the table named needle in the memory m, 0 if none
FindAttr(m, tab, count, needle) ==
    LET hits == {i \in SameLen(tab, count, needle) :
                    Slice(m, tab[i].name_ptr, tab[i].name_len) = needle}
    IN  IF hits = {} THEN 0 ELSE CHOOSE i \in hits : \A j \in hits : i <= j

\* reader_attribute; it reads the names it compares and the value it returns
reader_attribute(d, sz, old, tab, count, needle) ==
    LET inside == /\ \A i \in SameLen(tab, count, needle) :
                        InBuffer(sz, tab[i].name_ptr, tab[i].name_len)
                  /\ LET i == FindAttr(d, tab, count, needle)
                     IN  i = 0 \/ InBuffer(sz, tab[i].val_ptr, tab[i].val_len)
        val(m) == LET i == FindAttr(m, tab, count, needle)
                  IN  IF i = 0 THEN Qnil ELSE make_attr_value(m, tab[i])
    IN  Results(inside,
                {[val |-> val(m), decoded_text |-> Qnil] : m \in Views(d, old, inside)})

-----------------------------------------------------------------------------
(* The inputs.  A document is a sequence of fragments; the buffer holds    *)
(* the fragments' bytes one after the other.  kind and tag describe what   *)
(* the fragment is in XML terms; the reader sees the bytes only.           *)

Frag ==
    << [kind |-> "open",      tag |-> "a",     bytes |-> <<60, 97, 62>>],                 \* <a>
       [kind |-> "close",     tag |-> "a",     bytes |-> <<60, 47, 97, 62>>],             \* </a>
       [kind |-> "selfclose", tag |-> "a",     bytes |-> <<60, 97, 47, 62>>],             \* <a/>
       [kind |-> "selfclose", tag |-> "p:a",
        bytes |-> <<60, 112, 58, 97, 32, 107, 61, 34, 118, 34, 47, 62>>],                 \* <p:a k="v"/>
       [kind |-> "open",      tag |-> "p:a",
        bytes |-> <<60, 112, 58, 97, 32, 107, 61, 39, 118, 39, 62>>],                     \* <p:a k='v'>
       [kind |-> "close",     tag |-> "p:a",   bytes |-> <<60, 47, 112, 58, 97, 32, 62>>], \* </p:a >
       [kind |-> "text",      tag |-> "",      bytes |-> <<120>>],                        \* x
       [kind |-> "space",     tag |-> "",      bytes |-> <<32, 10>>],                     \* SP LF
       [kind |-> "comment",   tag |-> "",
        bytes |-> <<60, 33, 45, 45, 99, 45, 100, 45, 45, 62>>],                           \* <!--c-d-->
       [kind |-> "pi",        tag |-> "",      bytes |-> <<60, 63, 112, 63, 113, 63, 62>>], \* <?p?q?>
       [kind |-> "cdata",     tag |-> "",
        bytes |-> <<60, 33, 91, 67, 68, 65, 84, 65, 91, 93, 100, 93, 93, 62>>],           \* <![CDATA[]d]]>
       [kind |-> "doctype",   tag |-> "",
        bytes |-> <<60, 33, 68, 79, 67, 84, 89, 80, 69, 32, 113, 91, 62, 93, 62>>],       \* <!DOCTYPE q[>]>
       [kind |-> "open",      tag |-> "c:d:e", bytes |-> <<60, 99, 58, 100, 58, 101, 62>>], \* <c:d:e>
       [kind |-> "junk",      tag |-> "",      bytes |-> <<60>>],                         \* <
       [kind |-> "junk",      tag |-> "",      bytes |-> <<60, 47, 97>>],                 \* </a
       [kind |-> "cut",       tag |-> "",      bytes |-> <<60, 33, 45, 45>>],             \* <!--
       [kind |-> "cut",       tag |-> "",      bytes |-> <<60, 63>>],                     \* <?
       [kind |-> "cut",       tag |-> "",
        bytes |-> <<60, 33, 91, 67, 68, 65, 84, 65, 91>>],                                \* <![CDATA[
       [kind |-> "cut",       tag |-> "",
        bytes |-> <<60, 33, 68, 79, 67, 84, 89, 80, 69, 91>>],                            \* <!DOCTYPE[
       [kind |-> "junk",      tag |-> "",      bytes |-> <<60, 97, 32, 107, 61, 34>>],    \* <a k="
       [kind |-> "junk",      tag |-> "",      bytes |-> <<60, 97, 47>>],                 \* <a/
       [kind |-> "misc",      tag |-> "",
        bytes |-> <<60, 33, 45, 45, 99, 45, 100, 45, 45, 62,
                    60, 63, 112, 63, 113, 63, 62>>],                                      \* <!--c-d--><?p?q?>
       [kind |-> "chars",     tag |-> "",      bytes |-> <<38, 97, 109, 112, 59>>],       \* &amp;
       [kind |-> "chars",     tag |-> "",      bytes |-> <<97, 109, 112, 59>>],           \* amp;
       [kind |-> "chars",     tag |-> "",      bytes |-> <<38, 108, 116, 59>>],           \* &lt;
       [kind |-> "chars",     tag |-> "",      bytes |-> <<38>>],                         \* &
       [kind |-> "chars",     tag |-> "",      bytes |-> <<59>>],                         \* ;
       [kind |-> "chars",     tag |-> "",      bytes |-> <<38, 35, 120, 52>>],            \* &#x4
       [kind |-> "chars",     tag |-> "",      bytes |-> <<49, 59>>],                     \* 1;
       [kind |-> "tagstart",  tag |-> "t",     bytes |-> <<60, 116>>],                    \* <t
       [kind |-> "attr",      tag |-> "",      bytes |-> <<32, 97, 61, 34, 49, 34>>,      \*  a="1"
        name |-> <<97>>, value |-> <<49>>, decoded |-> <<49>>],
       [kind |-> "attr",      tag |-> "",
        bytes |-> <<32, 98, 61, 39, 116, 119, 111, 39>>,                                  \*  b='two'
        name |-> <<98>>, value |-> <<116, 119, 111>>, decoded |-> <<116, 119, 111>>],
       [kind |-> "attr",      tag |-> "",
        bytes |-> <<32, 120, 109, 108, 110, 115, 32, 61, 32, 34, 117, 34>>,               \*  xmlns = "u"
        name |-> <<120, 109, 108, 110, 115>>, value |-> <<117>>, decoded |-> <<117>>],
       [kind |-> "attr",      tag |-> "",
        bytes |-> <<32, 120, 109, 108, 110, 115, 58, 112, 61, 39, 118, 39>>,              \*  xmlns:p='v'
        name |-> <<120, 109, 108, 110, 115, 58, 112>>, value |-> <<118>>,
        decoded |-> <<118>>],
       [kind |-> "attr",      tag |-> "",
        bytes |-> <<10, 120, 109, 108, 110, 115, 120, 61, 34, 38, 108, 116, 59, 34>>,     \* LF xmlnsx="&lt;"
        name |-> <<120, 109, 108, 110, 115, 120>>, value |-> <<38, 108, 116, 59>>,
        decoded |-> <<60>>],
       [kind |-> "tagend",    tag |-> "",      bytes |-> <<62>>],                         \* >
       [kind |-> "tagend",    tag |-> "",      bytes |-> <<47, 62>>],                     \* />
       [kind |-> "dtd",       tag |-> "",
        bytes |-> <<60, 33, 68, 79, 67, 84, 89, 80, 69, 32, 113, 32, 83, 89, 83, 84,
                    69, 77, 32, 34, 120, 62, 121, 34, 62>>],                              \* <!DOCTYPE q SYSTEM "x>y">
       [kind |-> "dtd",       tag |-> "",
        bytes |-> <<60, 33, 68, 79, 67, 84, 89, 80, 69, 32, 113, 32, 91, 60, 33, 69,
                    76, 69, 77, 69, 78, 84, 32, 113, 32, 65, 78, 89, 62, 93, 62>>],       \* <!DOCTYPE q [<!ELEMENT q ANY>]>
       [kind |-> "slash",     tag |-> "",      bytes |-> <<32, 47>>],                     \* SP /
       [kind |-> "qattr",     tag |-> "",
        bytes |-> <<32, 99, 61, 34, 47, 62, 34>>,                                         \*  c="/>"
        name |-> <<99>>, value |-> <<47, 62>>, decoded |-> <<47, 62>>],
       [kind |-> "chars",     tag |-> "",      bytes |-> <<38, 35>>],                     \* &#
       [kind |-> "ntag",      tag |-> "bq",    bucket |-> 508, bytes |-> <<60, 98, 113, 47, 62>>],\* <bq/>
       [kind |-> "ntag",      tag |-> "bcf",   bucket |-> 508, bytes |-> <<60, 98, 99, 102, 47, 62>>],\* <bcf/>
       [kind |-> "ntag",      tag |-> "qs",    bucket |-> 509, bytes |-> <<60, 113, 115, 47, 62>>],\* <qs/>
       [kind |-> "ntag",      tag |-> "ln",    bucket |-> 511, bytes |-> <<60, 108, 110, 47, 62>>],\* <ln/>
       [kind |-> "ntag",      tag |-> "rp",    bucket |-> 511, bytes |-> <<60, 114, 112, 47, 62>>],\* <rp/>
       [kind |-> "ntag",      tag |-> "ds",    bucket |-> 0, bytes |-> <<60, 100, 115, 47, 62>>],\* <ds/>
       [kind |-> "ntag",      tag |-> "kq",    bucket |-> 1, bytes |-> <<60, 107, 113, 47, 62>>],\* <kq/>
       [kind |-> "ntag",      tag |-> "yo",    bucket |-> 1, bytes |-> <<60, 121, 111, 47, 62>>],\* <yo/>
       [kind |-> "ntag",      tag |-> "emc",   bucket |-> 508, bytes |-> <<60, 101, 109, 99, 47, 62>>] >>\* <emc/>

FragIds == 1..Len(Frag)

\* the fragments a well-nested document is made of
Leaves == {k \in FragIds : Frag[k].kind \in {"selfclose", "text", "space", "misc", "cdata"}
                           /\ Frag[k].tag # "p:a"}

Pairs == {pr \in FragIds \X FragIds :
              /\ Frag[pr[1]].kind = "open" /\ Frag[pr[2]].kind = "close"
              /\ Frag[pr[1]].tag = Frag[pr[2]].tag}

RECURSIVE Bytes(_)
Bytes(dc) == IF dc = <<>> THEN <<>> ELSE Frag[Head(dc)].bytes \o Bytes(Tail(dc))

\* every document of at most n fragments out of ids
Docs(ids, n) == UNION {[1..k -> ids] : k \in 0..n}

\* the fragments of the free-form inputs: everything but the constructs cut
\* short that swallow the rest of the input
FreeIds == {k \in FragIds : Frag[k].kind \notin
               {"cut", "misc", "chars", "tagstart", "attr", "tagend", "dtd",
                "slash", "qattr", "ntag"}}

\* the fragments of the truncated inputs
CutIds == {k \in FragIds : /\ Frag[k].kind \notin
                                {"selfclose", "misc", "chars", "tagstart", "attr", "tagend",
                                 "dtd", "slash", "qattr", "ntag"}
                            /\ Frag[k].tag \in {"", "a"}}

\* the fragments of the inputs of the reader's life cycle: <a>, </a>, x
LifeIds == {1, 2, 7}

\* what may stand outside the root element: white space, a comment, a
\* processing instruction, a DOCTYPE declaration
PrologIds == {k \in FragIds : Frag[k].kind \in {"space", "comment", "pi", "dtd"}}

\* the pieces of text: x, white space, references and parts of references
CharIds == {k \in FragIds : Frag[k].kind = "chars"} \cup {7, 8}

\* the fragments of the inputs the accessors are called on: </a>,
\* <p:a k='v'>, x, &amp;, &lt;
AccIds == {2, 5, 7, 23, 25}

\* the names attribute() is called with: k, a, b, xmlns, xmlns:p, xmlnsx
Needles ==
    {<<107>>, <<97>>, <<98>>, <<120, 109, 108, 110, 115>>,
     <<120, 109, 108, 110, 115, 58, 112>>, <<120, 109, 108, 110, 115, 120>>}

\* the attributes a start tag is made of
AttrIds == {k \in FragIds : Frag[k].kind = "attr"}

\* a start tag <t ...> or <t .../> of at most n attributes, and x after it
AttrDocs(n) ==
    {<<30>> \o as \o <<e, 7>> : as \in Docs(AttrIds, n), e \in {36, 37}}

\* the parts of the start tags whose terminator is looked at: a="1",
\* LF xmlnsx="&lt;", a '/' on its own, c="/>"
TagIds == {31, 35, 40, 41}

\* a start tag <t ...> or <t .../> of at most n such parts, and x after it
TagDocs(n) ==
    {<<30>> \o as \o <<e, 7>> : as \in Docs(TagIds, n), e \in {36, 37}}

\* the empty elements whose names meet in the cache: their buckets are 508,
\* 508, 509, 511, 511, 0, 1, 1 and 508
NameIds == {k \in FragIds : Frag[k].kind = "ntag"}

\* dc backwards
Reversed(dc) == [i \in 1..Len(dc) |-> dc[Len(dc) + 1 - i]]

\* the nine elements one after the other, forwards and backwards
InternDocs ==
    LET all == [i \in 1..Cardinality(NameIds) |-> 42 + i]
    IN  {all, Reversed(all)}

\* a start tag <t ...> or <t .../> with MAX_ATTRS - 2 to n times the attribute
\* a="1", at most one attribute before them and one after them, and x after it
ManyDocs(n) ==
    {<<30>> \o h \o [i \in 1..k |-> 31] \o t \o <<e, 7>> :
        h \in Docs(AttrIds, 1), k \in (MAX_ATTRS - 2)..n,
        t \in Docs(AttrIds, 1), e \in {36, 37}}

\* the well-nested documents of exactly n fragments: a forest is a sequence of
\* trees, a tree a leaf or a forest between an open tag and its close tag
Tree(k, forests) ==
    IF k = 1 THEN {<<l>> : l \in Leaves}
    ELSE {<<pr[1]>> \o f \o <<pr[2]>> : pr \in Pairs, f \in forests[k - 2]}

Forest[n \in Nat] ==
    IF n = 0 THEN {<<>>}
    ELSE UNION {{t \o f : t \in Tree(k, Forest), f \in Forest[n - k]} : k \in 1..n}

NestDocs(n) == UNION {Forest[k] : k \in 0..n}

-----------------------------------------------------------------------------
(* The state machine.                                                      *)

\* no accessor called yet
NoCall == [val |-> Qnil, gen |-> 0, made |-> FALSE, uaf |-> FALSE, src |-> NULL, len |-> 0, arg |-> <<>>]

\* r->is_mmap as reader_initialize leaves it: 1 for a file path (mapped, or
\* empty and not mapped), 0 for an IO (read into a heap buffer)
InitMmap(arg) == IF arg = "path" THEN 1 ELSE 0

\* the reader lives: no call of it is stuck, it is not destroyed and no
\* accessor stopped the process
Alive == ret # "hang" /\ ~freed /\ out.val # Crash

\* the reader after reader_alloc and reader_initialize on the document dc,
\* given as a file path or as an IO
InitOn(dc, arg) ==
    /\ doc = dc
    /\ source = arg
    /\ is_mmap = InitMmap(arg)
    /\ released = <<>>
    /\ freed = FALSE
    /\ decoded_text = Qnil
    /\ name_cache = <<>>
    /\ strings = <<>>
    /\ out = NoCall
    /\ data = Bytes(dc)
    /\ size = Len(Bytes(dc))
    /\ pos = 0
    /\ depth = 0
    /\ report_depth = 0
    /\ node_type = 0
    /\ is_empty = 0
    /\ name_ptr = NULL
    /\ name_len = 0
    /\ text_ptr = NULL
    /\ text_len = 0
    /\ text_has_entity = 0
    /\ attrs = <<>>
    /\ attr_count = 0
    /\ call = "none"
    /\ ret = "none"
    /\ node_pos = 0
    /\ prev_ret = "none"
    /\ advances = 0
    /\ closed = FALSE

\* the free-form, truncated and well-nested inputs are opened as files
Init == \E dc \in Docs(FreeIds, MaxFrags) : InitOn(dc, "path")

InitCut == \E dc \in Docs(CutIds, MaxFrags) : InitOn(dc, "path")

InitNest == \E dc \in NestDocs(MaxNest) : InitOn(dc, "path")

\* the start tags with about as many attributes as the table holds
InitMany == \E dc \in ManyDocs(MaxFill) : InitOn(dc, "path")

\* the inputs with no element and no text
InitProlog == \E dc \in Docs(PrologIds, MaxFrags) : InitOn(dc, "path")

\* the inputs the accessors are called on
InitAcc == \E dc \in Docs(AccIds, MaxFrags) : InitOn(dc, "path")

\* the texts that are decoded
InitDecode == \E dc \in Docs(CharIds, MaxFrags) : InitOn(dc, "path")

\* the start tags with attributes
InitAttr == \E dc \in AttrDocs(MaxFrags) : InitOn(dc, "path")

\* the start tags with a '/' inside a value and outside of one
InitTag == \E dc \in TagDocs(MaxFrags) : InitOn(dc, "path")

\* the elements whose names meet in the cache
InitIntern == \E dc \in InternDocs : InitOn(dc, "path")

\* the inputs of the reader's life cycle, opened as files and as IOs
InitLife == \E dc \in Docs(LifeIds, MaxFrags), arg \in {"path", "io"} : InitOn(dc, arg)

\* the reader's fields as reader_read_internal takes them
Cur ==
    [pos |-> pos, depth |-> depth, report_depth |-> report_depth,
     node_type |-> node_type, is_empty |-> is_empty,
     name_ptr |-> name_ptr, name_len |-> name_len,
     text_ptr |-> text_ptr, text_len |-> text_len,
     text_has_entity |-> text_has_entity,
     attrs |-> attrs, attr_count |-> attr_count,
     decoded_text |-> decoded_text,
     ret |-> "none", node_pos |-> node_pos]

\* read()
Read ==
    /\ Alive
    /\ \E r \in {reader_read_internal(data, size, Cur)} :
           /\ pos' = r.pos
           /\ depth' = r.depth
           /\ report_depth' = r.report_depth
           /\ node_type' = r.node_type
           /\ is_empty' = r.is_empty
           /\ name_ptr' = r.name_ptr
           /\ name_len' = r.name_len
           /\ text_ptr' = r.text_ptr
           /\ text_len' = r.text_len
           /\ text_has_entity' = r.text_has_entity
           /\ attrs' = r.attrs
           /\ attr_count' = r.attr_count
           /\ decoded_text' = r.decoded_text
           /\ ret' = r.ret
           /\ node_pos' = r.node_pos
           /\ advances' = IF r.ret = "true" THEN advances + 1 ELSE advances
    /\ prev_ret' = ret
    /\ call' = "read"
    /\ UNCHANGED <<doc, data, size, closed, source, is_mmap, released, freed,
                   name_cache, strings, out>>

\* close()
Close ==
    /\ Alive
    /\ \E c \in {reader_close(data, size)} :
           /\ data' = c.data
           /\ size' = c.size
    /\ released' = released \o Release(data, is_mmap)
    /\ call' = "close"
    /\ closed' = TRUE
    /\ UNCHANGED <<doc, pos, depth, report_depth, node_type, is_empty,
                   name_ptr, name_len, text_ptr, text_len, text_has_entity,
                   attrs, attr_count, ret, prev_ret, node_pos, advances,
                   source, is_mmap, freed, decoded_text, name_cache, strings, out>>

\* the reader's destruction: reader_free, run once by the collector
Free ==
    /\ Alive
    /\ released' = released \o Release(data, is_mmap)
    /\ freed' = TRUE
    /\ call' = "free"
    /\ UNCHANGED <<doc, data, size, pos, depth, report_depth, node_type, is_empty,
                   name_ptr, name_len, text_ptr, text_len, text_has_entity,
                   attrs, attr_count, ret, prev_ret, node_pos, advances, closed,
                   source, is_mmap, decoded_text, name_cache, strings, out>>

\* what an accessor leaves alone: all but r->decoded_text
AccessorFrame ==
    UNCHANGED <<doc, data, size, pos, depth, report_depth, node_type, is_empty,
                name_ptr, name_len, text_ptr, text_len, text_has_entity,
                attrs, attr_count, ret, prev_ret, node_pos, advances, closed,
                source, is_mmap, released, freed>>

\* name()
Name ==
    /\ Alive
    /\ \E v \in reader_name(data, size, Bytes(doc), name_ptr, name_len,
                             name_cache, strings) :
           /\ v.gen <= MaxAllocs
           /\ out' = [val |-> v.val, gen |-> v.gen, made |-> v.made, uaf |-> v.uaf,
                      src |-> name_ptr, len |-> name_len, arg |-> <<>>]
           /\ name_cache' = v.name_cache
           /\ strings' = v.strings
    /\ call' = "name"
    /\ UNCHANGED decoded_text
    /\ AccessorFrame

\* value()
Value ==
    /\ Alive
    /\ \E v \in reader_value(data, size, Bytes(doc), text_ptr, text_len,
                              text_has_entity, decoded_text) :
           /\ out' = [val |-> v.val, gen |-> 0, made |-> FALSE, uaf |-> v.uaf,
                      src |-> text_ptr, len |-> text_len, arg |-> <<>>]
           /\ decoded_text' = v.decoded_text
    /\ call' = "value"
    /\ UNCHANGED <<name_cache, strings>>
    /\ AccessorFrame

\* attribute(needle)
Attribute ==
    /\ Alive
    /\ \E needle \in Needles :
       \E v \in reader_attribute(data, size, Bytes(doc), attrs, attr_count, needle) :
           out' = [val |-> v.val, gen |-> 0, made |-> FALSE, uaf |-> v.uaf,
                   src |-> NULL, len |-> 0, arg |-> needle]
    /\ call' = "attribute"
    /\ UNCHANGED <<decoded_text, name_cache, strings>>
    /\ AccessorFrame

\* decode_entities called on the whole buffer
Decode ==
    /\ Alive
    /\ data # <<>>
    /\ out' = [val |-> Str(decode_entities(data, 0, size)), gen |-> 0, made |-> FALSE,
               uaf |-> FALSE, src |-> 0, len |-> size, arg |-> <<>>]
    /\ call' = "decode"
    /\ UNCHANGED <<decoded_text, name_cache, strings>>
    /\ AccessorFrame

Next == Read \/ Close

\* the calls of a reader in use, the accessors included
NextAcc == Read \/ Close \/ Name \/ Value \/ Attribute

\* the calls that decode: read() and value() on a text, decode_entities itself
NextDecode == Read \/ Value \/ Decode

\* the calls of a reader's whole life, its destruction included
NextLife == Read \/ Close \/ Free

\* the calls that fill the name cache
NextIntern == Read \/ Name

Spec == Init /\ [][Next]_vars

SpecCut == InitCut /\ [][Next]_vars

SpecNest == InitNest /\ [][Next]_vars

SpecLife == InitLife /\ [][NextLife]_vars

SpecAcc == InitAcc /\ [][NextAcc]_vars

SpecDecode == InitDecode /\ [][NextDecode]_vars

SpecAttr == InitAttr /\ [][NextAcc]_vars

SpecMany == InitMany /\ [][Next]_vars

SpecProlog == InitProlog /\ [][Next]_vars

SpecTag == InitTag /\ [][Next]_vars

SpecIntern == InitIntern /\ [][NextIntern]_vars

-----------------------------------------------------------------------------
(* What the document says about the node reported last.                    *)

\* offset of the first byte of fragment k of dc
FragStart(dc, k) == Len(Bytes(SubSeq(dc, 1, k - 1)))

\* the fragment of dc that begins at offset off, 0 if none does
FragAt(dc, off) ==
    LET ks == {k \in 1..Len(dc) : FragStart(dc, k) = off}
    IN  IF ks = {} THEN 0 ELSE CHOOSE k \in ks : TRUE

KindAt(dc, k) == IF k \in 1..Len(dc) THEN Frag[dc[k]].kind ELSE "none"

\* a read() has just returned true
Reported == call = "read" /\ ret = "true"

\* the bytes of the name of the node reported last
NameBytes == Slice(data, name_ptr, name_len)

-----------------------------------------------------------------------------
(* C1 *)

\* C1: a read() that reports the node beginning at a self-closing tag <x/>
\* (with or without attributes) reports an ELEMENT with is_empty set, at the
\* depth before the call, leaves depth unchanged and leaves the cursor right
\* after the tag's "/>"; and every node a read() reports begins at or after
\* the cursor the previous call left, so that what is reported next is what
\* follows the "/>" and the tag yields no END_ELEMENT.
C1_SelfClosing ==
    [][ (call' = "read" /\ ret' = "true") =>
          /\ node_pos' >= pos
          /\ LET k == FragAt(doc, node_pos')
             IN  KindAt(doc, k) = "selfclose" =>
                   /\ node_type' = TYPE_ELEMENT
                   /\ is_empty' = 1
                   /\ report_depth' = depth
                   /\ depth' = depth
                   /\ pos' = node_pos' + Len(Frag[doc[k]].bytes) ]_vars

\* <a><p:a k="v"/> read up to the self-closing tag, inside its parent
C1_Witness ==
    /\ Reported
    /\ Len(doc) >= 2
    /\ doc[1] = 1
    /\ doc[2] = 4
    /\ node_pos = FragStart(doc, 2)
    /\ node_type = TYPE_ELEMENT
    /\ is_empty = 1
    /\ attr_count = 1
    /\ report_depth = 1
    /\ depth = 1
    /\ pos = FragStart(doc, 3)

-----------------------------------------------------------------------------
(* C2 *)

\* the self-closing form <x .../> of the start tag whose bytes are b
SelfForm(b) == SubSeq(b, 1, Len(b) - 1) \o <<SLASH, GT>>

\* the close tags that end the element opened by fragment k of dc with nothing
\* in between but at most gap fragments of whitespace
EndsOf(dc, k, gap) ==
    {j \in (k + 1)..Len(dc) :
        /\ j - k - 1 <= gap
        /\ Frag[dc[j]].kind = "close"
        /\ Frag[dc[j]].tag = Frag[dc[k]].tag
        /\ \A i \in (k + 1)..(j - 1) : Frag[dc[i]].kind = "space"}

\* dc's bytes with the fragments k..j replaced by the self-closing form of k
WithSelfForm(dc, k, j) ==
    Bytes(SubSeq(dc, 1, k - 1)) \o SelfForm(Frag[dc[k]].bytes)
        \o Bytes(SubSeq(dc, j + 1, Len(dc)))

\* This step is a read() that reports what the same read() reports on alt,
\* and leaves the same depth and the same input still to be read.
SameAsOn(alt) ==
    \E ra \in {reader_read_internal(alt, Len(alt), Cur)} :
        /\ ra.ret = "true"
        /\ node_type' = ra.node_type
        /\ name_len' = ra.name_len
        /\ Slice(data, name_ptr', name_len') = Slice(alt, ra.name_ptr, ra.name_len)
        /\ report_depth' = ra.report_depth
        /\ is_empty' = ra.is_empty
        /\ attr_count' = ra.attr_count
        /\ \A i \in 1..attr_count' :
              /\ Slice(data, attrs'[i].name_ptr, attrs'[i].name_len)
                   = Slice(alt, ra.attrs[i].name_ptr, ra.attrs[i].name_len)
              /\ Slice(data, attrs'[i].val_ptr, attrs'[i].val_len)
                   = Slice(alt, ra.attrs[i].val_ptr, ra.attrs[i].val_len)
        /\ depth' = ra.depth
        /\ SubSeq(data, pos' + 1, size) = SubSeq(alt, ra.pos + 1, Len(alt))

\* every read() that reports the start tag of an element whose end tag follows
\* after at most gap whitespace fragments reports what it would for <x/>
CollapsesLikeSelfClosing(gap) ==
    (call' = "read" /\ ret' = "true") =>
        LET k == FragAt(doc, node_pos')
        IN  KindAt(doc, k) = "open" =>
              \A j \in EndsOf(doc, k, gap) : SameAsOn(WithSelfForm(doc, k, j))

\* C2 as claimed: an element <x></x> with nothing or only whitespace between
\* the tags is reported exactly as <x/> in the same position is.
C2_Original == [][CollapsesLikeSelfClosing(MaxFrags)]_vars

\* C2: an element <x></x> with nothing between the start tag and its matching
\* end tag is reported exactly as <x/> in the same position is: the same node
\* type, name, report_depth, is_empty and attributes, the same depth, and the
\* same input left to read.
C2_ImmediateEndTag == [][CollapsesLikeSelfClosing(0)]_vars

\* <a><p:a k='v'></p:a > read up to the collapsed element
C2_Witness ==
    /\ Reported
    /\ Len(doc) >= 3
    /\ doc[1] = 1
    /\ doc[2] = 5
    /\ doc[3] = 6
    /\ node_pos = FragStart(doc, 2)
    /\ node_type = TYPE_ELEMENT
    /\ is_empty = 1
    /\ attr_count = 1
    /\ report_depth = 1
    /\ depth = 1
    /\ pos = FragStart(doc, 4)

-----------------------------------------------------------------------------
(* C3 *)

\* how many elements are open where fragment k of dc begins
OpenDepth(dc, k) ==
    Cardinality({i \in 1..(k - 1) : Frag[dc[i]].kind = "open"})
        - Cardinality({i \in 1..(k - 1) : Frag[dc[i]].kind = "close"})

\* the start tag that the end tag at fragment j of a well-nested dc closes
MatchOpen(dc, j) ==
    LET is == {i \in 1..(j - 1) : /\ Frag[dc[i]].kind = "open"
                                  /\ OpenDepth(dc, i) = OpenDepth(dc, j) - 1}
    IN  CHOOSE i \in is : \A h \in is : h <= i

\* C3: in a well-nested document read to its end (the buffer not released by
\* close()), every ELEMENT is reported at the number of elements open around
\* its tag, every END_ELEMENT is an end tag of the document and is reported at
\* the report_depth of the ELEMENT of its matching start tag, and depth is 0
\* once read() has returned false.
C3_WellNested ==
    /\ (Reported /\ node_type = TYPE_ELEMENT) =>
          LET k == FragAt(doc, node_pos)
          IN  /\ KindAt(doc, k) \in {"open", "selfclose"}
              /\ report_depth = OpenDepth(doc, k)
    /\ (Reported /\ node_type = TYPE_END_ELEMENT) =>
          LET j == FragAt(doc, node_pos)
          IN  /\ KindAt(doc, j) = "close"
              /\ report_depth = OpenDepth(doc, MatchOpen(doc, j))
    /\ (call = "read" /\ ret = "false" /\ ~closed) => depth = 0

\* an end tag reported one level down, after text, in a document of two levels
C3_Witness ==
    /\ Reported
    /\ node_type = TYPE_END_ELEMENT
    /\ KindAt(doc, FragAt(doc, node_pos)) = "close"
    /\ KindAt(doc, FragAt(doc, node_pos) - 1) = "text"
    /\ report_depth = 1
    /\ depth = 1

-----------------------------------------------------------------------------
(* C4 *)

\* how depth and report_depth of a node just reported relate to the depth
\* before the call, the depth after an end tag being end_depth
DepthRule(end_depth) ==
    (call' = "read" /\ ret' = "true") =>
        /\ (node_type' = TYPE_ELEMENT /\ is_empty' = 0) =>
              (report_depth' = depth /\ depth' = report_depth' + 1)
        /\ (node_type' = TYPE_ELEMENT /\ is_empty' # 0) =>
              (report_depth' = depth /\ depth' = depth)
        /\ node_type' = TYPE_TEXT =>
              (report_depth' = depth /\ depth' = depth)
        /\ node_type' = TYPE_END_ELEMENT =>
              (depth' = end_depth /\ report_depth' = depth')
        /\ node_type' \in {TYPE_ELEMENT, TYPE_TEXT, TYPE_END_ELEMENT}

\* C4 as claimed: after every successful read(), a non-empty ELEMENT has
\* report_depth = the depth before and depth = report_depth + 1; an empty
\* ELEMENT and a TEXT have report_depth = the depth before and depth
\* unchanged; for an END_ELEMENT depth is decremented and report_depth is the
\* new depth.
C4_Original == [][DepthRule(depth - 1)]_vars

\* C4: as claimed, except that for an END_ELEMENT depth is decremented only
\* when it is above 0 and stays 0 otherwise; report_depth is the new depth.
C4_DepthRule == [][DepthRule(IF depth > 0 THEN depth - 1 ELSE 0)]_vars

\* a non-empty element reported one level down
C4_Witness ==
    /\ Reported
    /\ node_type = TYPE_ELEMENT
    /\ is_empty = 0
    /\ report_depth = 1
    /\ depth = 2

-----------------------------------------------------------------------------
(* C5 *)

\* C5: depth and report_depth are never negative, whatever the input; an
\* END_ELEMENT read while depth is 0 leaves depth at 0 and is reported at 0.
C5_NeverNegative ==
    /\ [](depth >= 0 /\ report_depth >= 0)
    /\ [][ (call' = "read" /\ ret' = "true" /\ node_type' = TYPE_END_ELEMENT
              /\ depth = 0) => (depth' = 0 /\ report_depth' = 0) ]_vars

\* an end tag read first, with no element open
C5_Witness ==
    /\ Reported
    /\ node_type = TYPE_END_ELEMENT
    /\ advances = 1
    /\ KindAt(doc, 1) = "close"
    /\ node_pos = 0
    /\ depth = 0
    /\ report_depth = 0

-----------------------------------------------------------------------------
(* C6 *)

IsTagNode == Reported /\ node_type \in {TYPE_ELEMENT, TYPE_END_ELEMENT}

\* offset of the first byte of the tag name of the node reported last
TagNameStart == IF node_type = TYPE_ELEMENT THEN node_pos + 1 ELSE node_pos + 2

HasColon(bytes) == \E i \in 1..Len(bytes) : bytes[i] = COLON

\* C6 as claimed: no name of an ELEMENT or END_ELEMENT node contains a colon,
\* whatever the tag name is.
C6_Original == IsTagNode => ~HasColon(NameBytes)

\* C6: the name of an ELEMENT or END_ELEMENT node is what follows the first
\* colon of the tag name (the whole name when it has none): the name starts at
\* the tag name or right after a colon that no other colon precedes, so it has
\* no colon when the tag name has at most one, and keeps the later colons when
\* the tag name has more.
C6_AfterFirstColon ==
    IsTagNode =>
        /\ name_ptr >= TagNameStart
        /\ ~HasColon(Slice(data, TagNameStart, name_ptr - 1 - TagNameStart))
        /\ name_ptr > TagNameStart => At(data, name_ptr - 1) = COLON
        /\ name_ptr = TagNameStart => ~HasColon(NameBytes)
        /\ HasColon(NameBytes) =>
              HasColon(Slice(data, TagNameStart, name_ptr - TagNameStart))

\* <c:d:e> reported under the name d:e
C6_Witness ==
    /\ Reported
    /\ node_type = TYPE_ELEMENT
    /\ Frag[doc[FragAt(doc, node_pos)]].tag = "c:d:e"
    /\ NameBytes = <<100, 58, 101>>

-----------------------------------------------------------------------------
(* C7 *)

\* C7: once read() has returned false, every later read() returns false too
\* and leaves the cursor, depth, report_depth, node_type and the name as they
\* were.
C7_EofIdempotent ==
    [][ (ret = "false" /\ call' = "read") =>
          /\ ret' = "false"
          /\ UNCHANGED <<pos, depth, report_depth, node_type, name_ptr, name_len>>
      ]_vars

\* read() called again after it returned false at a trailing '<'
C7_Witness ==
    /\ call = "read"
    /\ ret = "false"
    /\ prev_ret = "false"
    /\ ~closed
    /\ node_type = TYPE_ELEMENT
    /\ pos = size
    /\ size > 1
    /\ At(data, size - 1) = LT

-----------------------------------------------------------------------------
(* C8 *)

\* C8: every read() returns (no loop of it runs without moving the cursor),
\* every read() that returns true leaves the cursor strictly further than it
\* was, and so at most as many read() calls return true as the input has
\* bytes; this for inputs that end inside a comment, a CDATA section, a
\* processing instruction, a DOCTYPE, a start tag, an end tag or an attribute
\* value too.
C8_Terminates ==
    /\ [](ret # "hang" /\ advances <= Len(Bytes(doc)))
    /\ [][ (call' = "read" /\ ret' = "true") => pos' > pos ]_vars

\* <a> then a comment that never ends: the second read() ran to the end of
\* the input and returned false
C8_Witness ==
    /\ call = "read"
    /\ ret = "false"
    /\ ~closed
    /\ Len(doc) = 3
    /\ KindAt(doc, 1) = "open"
    /\ Frag[doc[2]].bytes = <<60, 33, 45, 45>>
    /\ advances = 1
    /\ pos = size

-----------------------------------------------------------------------------
(* C9 *)

\* C9 as claimed: in every state reached by read() and close() calls
\* 0 <= pos <= size, and pos never decreases.
C9_Original ==
    /\ [](0 <= pos /\ pos <= size)
    /\ [][pos' >= pos]_vars

\* C9: in every state reached by read() and close() calls 0 <= pos, and
\* pos <= size as long as close() has not been called; pos never decreases
\* from one call to the next; close() sets size to 0 and leaves pos as it is.
C9_CursorInBuffer ==
    /\ [](0 <= pos /\ (~closed => pos <= size) /\ (closed => size = 0))
    /\ [][pos' >= pos /\ (call' = "close" => pos' = pos)]_vars

\* <p:a k='v'></a : the peek finds no '>' and the cursor is back right after
\* the start tag
C9_Witness ==
    /\ Reported
    /\ Len(doc) = 2
    /\ KindAt(doc, 1) = "open"
    /\ Frag[doc[2]].bytes = <<60, 47, 97>>
    /\ node_pos = 0
    /\ is_empty = 0
    /\ pos = FragStart(doc, 2)

-----------------------------------------------------------------------------
(* C10 *)

\* C10: after close(), whenever it was called, every read() returns false and
\* reports no node: the node fields stay as they were and no text or
\* attribute is set.
C10_ReadAfterClose ==
    [][ (closed /\ call' = "read") =>
          /\ ret' = "false"
          /\ advances' = advances
          /\ text_ptr' = NULL
          /\ attr_count' = 0
          /\ UNCHANGED <<pos, depth, report_depth, node_type, is_empty,
                         name_ptr, name_len, node_pos>> ]_vars

\* close() between two nodes, with input left, and then a read()
C10_Witness ==
    /\ closed
    /\ call = "read"
    /\ ret = "false"
    /\ prev_ret = "true"
    /\ advances = 1
    /\ pos < Len(Bytes(doc))

-----------------------------------------------------------------------------
(* C11 *)

\* the deallocator that matches how the buffer was acquired: a file is mapped,
\* an IO is read into a heap buffer
Matching == IF source = "path" THEN "munmap" ELSE "xfree"

\* C11: over any sequence of close() calls followed by the reader's
\* destruction, the buffer of a non-empty input is released exactly once: by
\* the first close() or, without one, by the destruction, never again after
\* that, and with the deallocator that matches how it was acquired (munmap
\* for a file, which has is_mmap set, xfree for an IO); for an empty input
\* nothing is released.
C11_ReleasedOnce ==
    /\ [](/\ Len(released) <= 1
          /\ \A i \in 1..Len(released) : released[i] = Matching
          /\ (source = "path") = (is_mmap # 0)
          /\ Bytes(doc) = <<>> => released = <<>>
          /\ (Bytes(doc) # <<>> /\ (closed \/ freed)) => Len(released) = 1
          /\ (~closed /\ ~freed) => released = <<>>)
    /\ [][released # <<>> => released' = released]_vars

\* an IO's buffer released by close() after one node was read, and the reader
\* destroyed after that
C11_Witness ==
    /\ freed
    /\ closed
    /\ source = "io"
    /\ advances = 1
    /\ Bytes(doc) # <<>>
    /\ released = <<"xfree">>

-----------------------------------------------------------------------------
(* C12 *)

\* whether an attribute name is xmlns or begins with xmlns:
IsNsDecl(name) ==
    \/ name = XMLNS
    \/ Len(name) > 5 /\ SubSeq(name, 1, 6) = XMLNS \o <<COLON>>

\* the fragments of dc that are attributes of its tag and no namespace
\* declarations, in document order
KeptAttrs(dc) ==
    SelectSeq([k \in 1..Len(dc) |-> k],
              LAMBDA k : Frag[dc[k]].kind = "attr" /\ ~IsNsDecl(Frag[dc[k]].name))

\* what attribute(n) returns on the tag of dc, by the document: the decoded
\* value of the first attribute named n that is no namespace declaration
ExpectedAttr(dc, n) ==
    LET ks == KeptAttrs(dc)
        hits == {i \in 1..Len(ks) : Frag[dc[ks[i]]].name = n}
    IN  IF hits = {} THEN Qnil
        ELSE Str(Frag[dc[ks[CHOOSE i \in hits : \A j \in hits : i <= j]]].decoded)

\* the node of the start tag that begins the input is the current node
OnFirstTag == ret = "true" /\ node_type = TYPE_ELEMENT /\ node_pos = 0 /\ ~closed

\* C12: the attribute table of a start tag holds the tag's attributes that
\* are not named xmlns or xmlns:..., in document order and no others, each
\* with its name and value; attribute(n) returns nothing for every n that is
\* xmlns or begins with xmlns:, and the value of the first attribute named n
\* for the other names.
C12_NoXmlns ==
    OnFirstTag =>
        LET ks == KeptAttrs(doc)
        IN  /\ attr_count = Len(ks)
            /\ \A i \in 1..attr_count :
                  /\ attrs[i].name_ptr = FragStart(doc, ks[i]) + 1
                  /\ Slice(data, attrs[i].name_ptr, attrs[i].name_len)
                        = Frag[doc[ks[i]]].name
                  /\ Slice(data, attrs[i].val_ptr, attrs[i].val_len)
                        = Frag[doc[ks[i]]].value
                  /\ ~IsNsDecl(Slice(data, attrs[i].name_ptr, attrs[i].name_len))
            /\ call = "attribute" =>
                  /\ IsNsDecl(out.arg) => out.val = Qnil
                  /\ out.val = ExpectedAttr(doc, out.arg)

\* <t xmlns = "u" a="1" xmlns:p='v'/>: one attribute kept, and attribute("xmlns")
\* returned nothing
C12_Witness ==
    /\ OnFirstTag
    /\ doc = <<30, 33, 31, 34, 37, 7>>
    /\ attr_count = 1
    /\ call = "attribute"
    /\ out.arg = XMLNS
    /\ out.val = Qnil

-----------------------------------------------------------------------------
(* C13 *)

\* dc without its attributes that are no namespace declarations and follow
\* MAX_ATTRS such attributes
WithoutSurplus(dc) ==
    LET ks == KeptAttrs(dc)
    IN  SelectSeq([k \in 1..Len(dc) |-> k],
                  LAMBDA k : \A i \in (MAX_ATTRS + 1)..Len(ks) : ks[i] # k)

\* C13: attr_count is from 0 to 32 in every state; the table of a start tag
\* holds the first 32 of the tag's attributes that are no namespace
\* declarations, in document order, each with its name and value, and all of
\* them when there are fewer; the cursor is left right after the tag's '>' or
\* "/>"; the tag's node, the depth and the input left to read are those of
\* the same tag without the attributes beyond the 32nd, so that the text
\* after the tag is reported next, one level down after '>' and at the same
\* level after "/>".
C13_AttrCap ==
    /\ [](/\ attr_count >= 0
          /\ attr_count <= MAX_ATTRS
          /\ OnFirstTag =>
                LET ks == KeptAttrs(doc)
                IN  /\ attr_count = IF Len(ks) < MAX_ATTRS THEN Len(ks) ELSE MAX_ATTRS
                    /\ \A i \in 1..attr_count :
                          /\ attrs[i].name_ptr = FragStart(doc, ks[i]) + 1
                          /\ Slice(data, attrs[i].name_ptr, attrs[i].name_len)
                                = Frag[doc[ks[i]]].name
                          /\ Slice(data, attrs[i].val_ptr, attrs[i].val_len)
                                = Frag[doc[ks[i]]].value
                    /\ pos = FragStart(doc, Len(doc))
                    /\ is_empty = IF doc[Len(doc) - 1] = 37 THEN 1 ELSE 0
          /\ (Reported /\ node_pos > 0) =>
                /\ node_type = TYPE_TEXT
                /\ node_pos = FragStart(doc, Len(doc))
                /\ report_depth = IF doc[Len(doc) - 1] = 37 THEN 0 ELSE 1)
    /\ [][(call' = "read" /\ ret' = "true" /\ node_pos' = 0) =>
             \E alt \in {Bytes([i \in 1..Len(WithoutSurplus(doc)) |->
                                  doc[WithoutSurplus(doc)[i]]])} : SameAsOn(alt)]_vars

\* a tag of 34 attributes a="1" between xmlns:p='v' and b='two': the table
\* holds 32 of them, and the text after the tag was reported
C13_Witness ==
    /\ Reported
    /\ node_type = TYPE_TEXT
    /\ Len(doc) = 39
    /\ doc[2] = 34
    /\ doc[37] = 32
    /\ doc[38] = 36
    /\ report_depth = 1
    /\ pos = size

-----------------------------------------------------------------------------
(* C14 *)

\* no read() has reported a node, and the depths are 0
NothingReported ==
    call = "read" => (ret = "false" /\ advances = 0 /\ depth = 0 /\ report_depth = 0)

\* C14: on an input made of white space, comments, processing instructions
\* and DOCTYPE declarations only, in any number and order, the first read()
\* returns false, no read() reports a node, and depth() is 0.
C14_Original == NothingReported

\* the same for the inputs in which no DOCTYPE declaration has a '>' in a
\* quoted literal
C14_PlainDoctype ==
    (\A k \in 1..Len(doc) : doc[k] # 38) => NothingReported

\* a comment, a DOCTYPE declaration with an internal subset and a processing
\* instruction, read to the end
C14_Witness ==
    /\ doc = <<9, 39, 10>>
    /\ call = "read"
    /\ ret = "false"
    /\ pos = size
    /\ ~closed

\* <!DOCTYPE q SYSTEM "x>y"> read: the text y"> was reported
C14_TextFromDoctype ==
    /\ doc = <<38>>
    /\ Reported
    /\ node_type = TYPE_TEXT
    /\ Slice(data, text_ptr, text_len) = <<121, 34, 62>>

-----------------------------------------------------------------------------
(* C15 *)

\* the fragments of the text that begins with fragment k of dc
RECURSIVE TextRun(_, _)
TextRun(dc, k) ==
    IF k \in 1..Len(dc) /\ Frag[dc[k]].kind \in {"text", "chars", "space"}
    THEN <<dc[k]>> \o TextRun(dc, k + 1)
    ELSE <<>>

\* the characters that the fragments x, white space, &amp; and &lt; stand for
CharsOf(k) ==
    IF k = 23 THEN <<AMP>> ELSE IF k = 25 THEN <<LT>> ELSE Frag[k].bytes

RECURSIVE Decoded(_)
Decoded(run) == IF run = <<>> THEN <<>> ELSE CharsOf(Head(run)) \o Decoded(Tail(run))

\* a node is current: the last read() returned true and the buffer is held
OnNode == ret = "true" /\ ~closed

\* C15: value() on a TEXT node returns the decoding of the node's text (the
\* references of the text replaced by their characters) and nothing on an
\* ELEMENT or END_ELEMENT node; a value() right after a value() returns the
\* same; and the decoding kept in decoded_text is always that of the current
\* node's text, never one of an earlier node.  (As long as close() has not
\* been called: the claim is about read() and value() calls.)
C15_ValueOfCurrentNode ==
    /\ [][(call' = "value" /\ OnNode) =>
             /\ node_type = TYPE_TEXT =>
                   out'.val = Str(Decoded(TextRun(doc, FragAt(doc, node_pos))))
             /\ node_type \in {TYPE_ELEMENT, TYPE_END_ELEMENT} => out'.val = Qnil
             /\ call = "value" => out'.val = out.val]_vars
    /\ []((decoded_text # Qnil /\ ~closed) =>
             /\ ret = "true"
             /\ node_type = TYPE_TEXT
             /\ decoded_text = Str(Decoded(TextRun(doc, FragAt(doc, node_pos)))))

\* &amp;</a>&lt;: value() called on the first text, and once more on the
\* second text, where it returned "<"
C15_Witness ==
    /\ doc = <<23, 2, 25>>
    /\ OnNode
    /\ call = "value"
    /\ advances = 3
    /\ node_type = TYPE_TEXT
    /\ out.val = Str(<<LT>>)
    /\ decoded_text = Str(<<LT>>)

-----------------------------------------------------------------------------
(* C16 *)

HasAmp(bytes) == \E i \in 1..Len(bytes) : bytes[i] = AMP

\* the raw bytes of the text that begins with fragment k of dc
RawText(dc, k) == Bytes(TextRun(dc, k))

\* C16: decode_entities on a byte string without '&' returns the string byte
\* for byte, and value() on a TEXT node whose raw bytes have no '&' returns
\* those raw bytes.
C16_NoAmpUnchanged ==
    [][/\ (call' = "decode" /\ ~HasAmp(data)) => out'.val = Str(data)
       /\ (call' = "value" /\ OnNode /\ node_type = TYPE_TEXT
              /\ ~HasAmp(RawText(doc, FragAt(doc, node_pos)))) =>
             out'.val = Str(RawText(doc, FragAt(doc, node_pos)))]_vars

\* decode_entities called on "amp;1;x": it returned the same bytes
C16_Witness ==
    /\ doc = <<24, 29, 7>>
    /\ call = "decode"
    /\ out.val = Str(<<97, 109, 112, 59, 49, 59, 120>>)

-----------------------------------------------------------------------------
(* C17 *)

\* bytes with every '&' replaced by "&amp;"
RECURSIVE Escape(_)
Escape(bytes) ==
    IF bytes = <<>> THEN <<>>
    ELSE IF Head(bytes) = AMP
         THEN <<AMP>> \o ENT_AMP \o <<SEMI>> \o Escape(Tail(bytes))
         ELSE <<Head(bytes)>> \o Escape(Tail(bytes))

\* every '&' of bytes begins "&amp;": bytes is Escape(s) for some s
IsEscaped(bytes) ==
    \A i \in 1..Len(bytes) :
        bytes[i] = AMP =>
            /\ i + 4 <= Len(bytes)
            /\ SubSeq(bytes, i + 1, i + 4) = ENT_AMP \o <<SEMI>>

\* the s that an escaped byte string is Escape(s) of
RECURSIVE Unescape(_)
Unescape(bytes) ==
    IF bytes = <<>> THEN <<>>
    ELSE IF Head(bytes) = AMP
         THEN <<AMP>> \o Unescape(SubSeq(bytes, 6, Len(bytes)))
         ELSE <<Head(bytes)>> \o Unescape(Tail(bytes))

\* C17: decode_entities is single-pass: no expansion is scanned again.
\* Decoding "&amp;amp;" gives "&amp;", and decoding that gives "&"; decoding
\* a string in which every '&' begins "&amp;" gives the string with each
\* "&amp;" turned back into '&'; for the bytes s of any input, decoding s
\* with every '&' replaced by "&amp;" gives s.
C17_SinglePass ==
    /\ [][call' = "decode" =>
             /\ data = Escape(Escape(<<AMP>>)) =>
                    /\ out'.val = Str(Escape(<<AMP>>))
                    /\ decode_entities(out'.val.bytes, 0, Len(out'.val.bytes)) = <<AMP>>
             /\ IsEscaped(data) => out'.val = Str(Unescape(data))]_vars
    /\ [](decode_entities(Escape(data), 0, Len(Escape(data))) = data)

\* decode_entities called on "&amp;amp;": it returned "&amp;"
C17_Witness ==
    /\ doc = <<23, 24>>
    /\ call = "decode"
    /\ out.val = Str(<<38, 97, 109, 112, 59>>)

-----------------------------------------------------------------------------
(* C18 *)

\* the end tags that end the element opened by fragment k of dc after
\* whitespace only, and some of it
SpacedEndsOf(dc, k) == {j \in EndsOf(dc, k, Len(dc)) : j > k + 1}

\* the start tag reported last, if its element holds whitespace only: the
\* fragment it is, 0 if the node reported last is no such tag
SpacedOpen ==
    LET k == FragAt(doc, node_pos)
    IN  IF Reported /\ node_type = TYPE_ELEMENT /\ KindAt(doc, k) = "open"
           /\ SpacedEndsOf(doc, k) # {}
        THEN k ELSE 0

\* C18: for an element whose start tag and matching end tag are separated by
\* whitespace only, the read() that reports the start tag reports an ELEMENT
\* with is_empty = 0 and leaves the cursor right after the start tag, and the
\* next read() reports the END_ELEMENT of the end tag at the same
\* report_depth: no TEXT node comes between them.
C18_WhitespaceOnly ==
    [][/\ (call' = "read" /\ ret' = "true") =>
             LET k == FragAt(doc, node_pos')
             IN  (KindAt(doc, k) = "open" /\ SpacedEndsOf(doc, k) # {}) =>
                    /\ node_type' = TYPE_ELEMENT
                    /\ is_empty' = 0
                    /\ pos' = FragStart(doc, k + 1)
       /\ (SpacedOpen # 0 /\ call' = "read") =>
             /\ ret' = "true"
             /\ node_type' = TYPE_END_ELEMENT
             /\ \A j \in SpacedEndsOf(doc, SpacedOpen) : node_pos' = FragStart(doc, j)
             /\ report_depth' = report_depth]_vars

\* <a>, whitespace, </a>: the end tag reported right after the start tag
C18_Witness ==
    /\ doc = <<1, 8, 2>>
    /\ Reported
    /\ prev_ret = "true"
    /\ advances = 2
    /\ node_type = TYPE_END_ELEMENT
    /\ node_pos = FragStart(doc, 3)
    /\ report_depth = 0

-----------------------------------------------------------------------------
(* C19 *)

\* the local name of the tag of fragment number f: what follows the first ':'
LocalTag(f) ==
    LET t == Frag[f].tag
    IN  IF t = "p:a" THEN "a" ELSE IF t = "c:d:e" THEN "d:e" ELSE t

HasGt(bytes) == \E i \in 1..Len(bytes) : bytes[i] = GT

\* what follows fragment k of dc
RestAfter(dc, k) == Bytes(SubSeq(dc, k + 1, Len(dc)))

\* fragment k of dc is a start tag followed at once by "</" that is no end
\* tag of it: an end tag of another local name, or one with no '>' up to the
\* end of the input
PeekFails(dc, k) ==
    /\ KindAt(dc, k) = "open"
    /\ k < Len(dc)
    /\ \/ /\ KindAt(dc, k + 1) = "close"
          /\ LocalTag(dc[k + 1]) # LocalTag(dc[k])
       \/ /\ Len(RestAfter(dc, k)) >= 2
          /\ RestAfter(dc, k)[1] = LT
          /\ RestAfter(dc, k)[2] = SLASH
          /\ ~HasGt(RestAfter(dc, k))

\* the start tag reported last, if the peek after it failed: the fragment it
\* is, 0 if the node reported last is no such tag
PeekedOpen ==
    LET k == FragAt(doc, node_pos)
    IN  IF Reported /\ node_type = TYPE_ELEMENT /\ PeekFails(doc, k) THEN k ELSE 0

\* C19: the nodes read() reports begin at strictly increasing offsets.  A
\* start tag followed at once by "</" with another local name, or with no
\* '>' up to the end of the input, is reported with is_empty = 0 and the
\* cursor right after the start tag; the next read() then takes the "</" as
\* the end tag it is: it reports the END_ELEMENT beginning there and leaves
\* the cursor after its '>', or returns false when there is no '>'.
C19_DocumentOrder ==
    [][/\ (call' = "read" /\ ret' = "true" /\ advances > 0) => node_pos' > node_pos
       /\ (call' = "read" /\ ret' = "true") =>
             LET k == FragAt(doc, node_pos')
             IN  PeekFails(doc, k) =>
                    /\ node_type' = TYPE_ELEMENT
                    /\ is_empty' = 0
                    /\ pos' = FragStart(doc, k + 1)
       /\ (PeekedOpen # 0 /\ call' = "read") =>
             IF HasGt(RestAfter(doc, PeekedOpen))
             THEN /\ ret' = "true"
                  /\ node_type' = TYPE_END_ELEMENT
                  /\ node_pos' = FragStart(doc, PeekedOpen + 1)
                  /\ pos' = FragStart(doc, PeekedOpen + 2)
             ELSE ret' = "false"]_vars

\* <c:d:e></a>: the end tag of another name reported after the start tag
C19_Witness ==
    /\ doc = <<13, 2>>
    /\ Reported
    /\ advances = 2
    /\ node_type = TYPE_END_ELEMENT
    /\ node_pos = FragStart(doc, 2)
    /\ pos = size

-----------------------------------------------------------------------------
(* C20 *)

Accessors == {"name", "value", "attribute"}

\* C20 as claimed: no call of name(), value() or attribute() reads bytes
\* outside the buffer held, and a call made after close() returns nil.
C20_Original ==
    /\ ~out.uaf
    /\ (closed /\ call \in Accessors) => out.val = Qnil

\* while the buffer is held (before close()) no accessor reads outside it
C20_HeldBuffer == ~closed => ~out.uaf

\* <p:a k='v'> read, then close(), then name(): the call read the name's
\* byte in the released buffer and returned what it found there
C20_ReadsReleased ==
    /\ doc = <<5>>
    /\ advances = 1
    /\ closed
    /\ data = <<>>
    /\ call = "name"
    /\ out.src = name_ptr
    /\ out.len = 1
    /\ out.uaf
    /\ out.val = Str(<<97>>)

-----------------------------------------------------------------------------
(* C21 *)

\* the tag's terminator: the last fragment but one of a start tag's document
TermAt(dc) == Len(dc) - 1

\* the first '/' on its own among the tag's parts, 0 if there is none
FirstSlash(dc) ==
    LET ks == {k \in 1..Len(dc) : Frag[dc[k]].kind = "slash"}
    IN  IF ks = {} THEN 0 ELSE CHOOSE k \in ks : \A j \in ks : k <= j

\* the attributes among the fragments 1..k of dc that parse_attrs keeps
KeptUpTo(dc, k) ==
    {i \in 1..k : /\ Frag[dc[i]].kind \in {"attr", "qattr"}
                  /\ ~IsNsDecl(Frag[dc[i]].name)}

\* the read() that reports the start tag at the head of the document
ReadsTag == call' = "read" /\ ret' = "true" /\ node_pos' = 0

C21_EndsAtSlash ==
    /\ doc = <<30, 40, 31, 36, 7>>
    /\ Reported
    /\ advances = 1
    /\ is_empty = 1
    /\ attr_count = 0
    /\ pos = FragStart(doc, 3)

-----------------------------------------------------------------------------
(* C22 *)

\* the five built-in references, "&amp;" .. "&apos;", and what each stands for
BuiltIns ==
    {[ref |-> <<AMP>> \o ENT_AMP \o <<SEMI>>, out |-> <<AMP>>],
     [ref |-> <<AMP>> \o ENT_LT \o <<SEMI>>, out |-> <<LT>>],
     [ref |-> <<AMP>> \o ENT_GT \o <<SEMI>>, out |-> <<GT>>],
     [ref |-> <<AMP>> \o ENT_QUOT \o <<SEMI>>, out |-> <<DQUOTE>>],
     [ref |-> <<AMP>> \o ENT_APOS \o <<SEMI>>, out |-> <<SQUOTE>>]}

IsPrefix(pre, bytes) ==
    Len(pre) <= Len(bytes) /\ SubSeq(bytes, 1, Len(pre)) = pre

IsDecDigit(c) == c >= 48 /\ c <= 57

IsHexDigit(c) == IsDecDigit(c) \/ (c >= 97 /\ c <= 102) \/ (c >= 65 /\ c <= 70)

\* the number bytes[from .. to] writes in the base
RECURSIVE DigitsVal(_, _, _, _)
DigitsVal(bytes, from, to, base) ==
    IF to < from THEN 0
    ELSE DigitsVal(bytes, from, to - 1, base) * base + HexDigit(bytes[to])

\* the ';' that ends the digits beginning at bytes[from], 0 if they are not
\* one digit or more followed by ';'
DigitsEnd(bytes, from, hex) ==
    LET ends == {j \in (from + 1)..Len(bytes) :
                    /\ bytes[j] = SEMI
                    /\ \A i \in from..(j - 1) :
                          IF hex THEN IsHexDigit(bytes[i]) ELSE IsDecDigit(bytes[i])}
    IN  IF ends = {} THEN 0 ELSE CHOOSE j \in ends : TRUE

\* the reference bytes begins with: how long it is and what it stands for;
\* of length 0 if bytes begins with no built-in or numeric reference
HeadRef(bytes) ==
    LET none == [len |-> 0, out |-> <<>>]
        bs   == {b \in BuiltIns : IsPrefix(b.ref, bytes)}
    IN  IF bs # {} THEN LET b == CHOOSE b \in bs : TRUE
                        IN  [len |-> Len(b.ref), out |-> b.out]
        ELSE IF ~IsPrefix(<<AMP, HASH>>, bytes) THEN none
        ELSE IF Len(bytes) >= 3 /\ bytes[3] \in {120, 88}
        THEN LET j == DigitsEnd(bytes, 4, TRUE)
             IN  IF j = 0 THEN none
                 ELSE [len |-> j, out |-> Utf8(DigitsVal(bytes, 4, j - 1, 16))]
        ELSE LET j == DigitsEnd(bytes, 3, FALSE)
             IN  IF j = 0 THEN none
                 ELSE [len |-> j, out |-> Utf8(DigitsVal(bytes, 3, j - 1, 10))]

\* bytes with every built-in and numeric reference in it expanded and every
\* other byte copied
RECURSIVE DecodeEvery(_)
DecodeEvery(bytes) ==
    IF bytes = <<>> THEN <<>>
    ELSE LET r == HeadRef(bytes)
         IN  IF r.len > 0
             THEN r.out \o DecodeEvery(SubSeq(bytes, r.len + 1, Len(bytes)))
             ELSE <<Head(bytes)>> \o DecodeEvery(Tail(bytes))

\* every '&' of bytes begins a built-in or numeric reference
OnlyRefs(bytes) ==
    \A i \in 1..Len(bytes) :
        bytes[i] = AMP => HeadRef(SubSeq(bytes, i, Len(bytes))).len > 0

\* index of the first byte c of bytes from index from on, 0 if there is none
FirstAt(bytes, c, from) ==
    LET is == {i \in from..Len(bytes) : bytes[i] = c}
    IN  IF is = {} THEN 0 ELSE CHOOSE i \in is : \A j \in is : i <= j

\* the ';' up to which the first '&' of bytes takes other '&' with it: the
\* first ';' after it, if a '&' stands between them and no '#' follows the
\* first '&'; 0 if there is no such ';'
SwallowEnd(bytes) ==
    LET i == FirstAt(bytes, AMP, 1)
        j == IF i = 0 THEN 0 ELSE FirstAt(bytes, SEMI, i)
    IN  IF j # 0 /\ bytes[i + 1] # HASH /\ (\E k \in (i + 1)..(j - 1) : bytes[k] = AMP)
        THEN j ELSE 0

\* C22 as claimed: decode_entities expands every built-in and every numeric
\* reference of its source, whatever precedes it, and copies all other bytes.
C22_Original == [][call' = "decode" => out'.val = Str(DecodeEvery(data))]_vars

\* C22: on a source in which every '&' begins a built-in or numeric
\* reference, decode_entities expands every reference and copies all other
\* bytes unchanged and in order.  A '&' is taken together with everything
\* up to the next ';': when another '&' stands between them (and no '#'
\* follows the first), the bytes up to that ';', the reference that the
\* later '&' begins included, are copied as they are, and decoding goes on
\* after the ';'.
C22_ExpandsPaired ==
    [][call' = "decode" =>
          /\ OnlyRefs(data) => out'.val = Str(DecodeEvery(data))
          /\ SwallowEnd(data) # 0 =>
                out'.val = Str(SubSeq(data, 1, SwallowEnd(data))
                                 \o decode_entities(data, SwallowEnd(data),
                                                     size - SwallowEnd(data)))]_vars

\* "&amp;&#x41;" decoded: "&A"
C22_Witness ==
    /\ doc = <<23, 28, 29>>
    /\ call = "decode"
    /\ out.val = Str(<<38, 65>>)

\* "&&amp;x" decoded: the reference after the bare '&' was not expanded
C22_Swallowed ==
    /\ doc = <<26, 23, 7>>
    /\ call = "decode"
    /\ out.val = Str(<<38, 38, 97, 109, 112, 59, 120>>)

-----------------------------------------------------------------------------
(* C23 *)

\* C23: what decode_entities returns is never longer than its source, and
\* what value() returns for a TEXT node is never longer than the node's raw
\* bytes: numeric references without digits, with bytes that are no digits
\* or written in four bytes, unknown references and a '&' without ';'
\* included.
C23_NotLonger ==
    [][/\ call' = "decode" => Len(out'.val.bytes) <= size
       /\ (call' = "value" /\ OnNode /\ node_type = TYPE_TEXT) =>
             Len(out'.val.bytes) <= text_len]_vars

\* "&#&;" decoded: a reference of four bytes whose '&' in the place of a
\* digit wraps the code point around, written in four bytes
C23_Witness ==
    /\ doc = <<42, 26, 27>>
    /\ call = "decode"
    /\ size = 4
    /\ Len(out.val.bytes) = 4
    /\ out.val.bytes[1] = 255

-----------------------------------------------------------------------------
(* C24 *)

Occupied(cache) == {i \in 0..(NAME_CACHE_SIZE - 1) : SlotAt(cache, i).gen # 0}

\* the name of the node reported last, as the buffer holds it
NodeName == Slice(data, name_ptr, name_len)

\* the slots that intern_name looks at for the name of the node reported
\* last, in probe order: eight from the name's bucket on, around the end of
\* the table
NodeWindow ==
    [k \in 1..8 |-> (Frag[doc[FragAt(doc, node_pos)]].bucket + k - 1) % 512]

\* the slots of the cache that hold the name
SlotsOf(cache, name) == {i \in Occupied(cache) : SlotAt(cache, i).bytes = name}

\* name() is called next on an element reported by read()
InternsNode == call' = "name" /\ ret = "true"

\* C24: an occupied slot of the name cache is never overwritten or cleared;
\* no two occupied slots hold the same name; every name stored stands in one
\* of the eight slots of its window; and name() on a name that is stored
\* returns the string of its slot, makes no string and leaves the cache as
\* it is.
C24_CacheStable ==
    /\ [][\A i \in Occupied(name_cache) :
             SlotAt(name_cache', i) = SlotAt(name_cache, i)]_vars
    /\ [](\A i, j \in Occupied(name_cache) :
             SlotAt(name_cache, i).bytes = SlotAt(name_cache, j).bytes => i = j)
    /\ [][InternsNode =>
             \A i \in SlotsOf(name_cache, NodeName) :
                 /\ \E k \in 1..8 : NodeWindow[k] = i
                 /\ out'.val = Str(NodeName)
                 /\ out'.gen = SlotAt(name_cache, i).gen
                 /\ ~out'.made
                 /\ name_cache' = name_cache
                 /\ strings' = strings]_vars

\* the nine elements read forwards with name() called on each, and again on
\* <rp/>: the call returned the string stored in slot 0, the second of the
\* name's window, which begins at slot 511
C24_Witness ==
    /\ doc[1] = 43
    /\ call = "name"
    /\ NodeName = <<114, 112>>
    /\ ~out.made
    /\ out.gen = 1
    /\ SlotAt(name_cache, 0) = [bytes |-> <<114, 112>>, gen |-> 1]
    /\ SlotAt(name_cache, 511).bytes = <<108, 110>>
    /\ Cardinality(Occupied(name_cache)) = 5

-----------------------------------------------------------------------------
(* C25 *)

\* the slots of the window of the node's name that are empty, by their place
\* in probe order
EmptyPlaces == {k \in 1..8 : SlotAt(name_cache, NodeWindow[k]).gen = 0}

\* the name of the node is in none of the slots of its window
MissesWindow == \A k \in 1..8 : SlotAt(name_cache, NodeWindow[k]).bytes # NodeName

\* the string returned is a new one: of the name's bytes, and none of the
\* strings made of them before
ReturnsFresh ==
    /\ out'.val = Str(NodeName)
    /\ out'.made
    /\ out'.gen > 0
    /\ NodeName \in DOMAIN strings => out'.gen > strings[NodeName]
    /\ \A i \in Occupied(name_cache) :
          SlotAt(name_cache, i).bytes = NodeName => SlotAt(name_cache, i).gen # out'.gen

\* C25: name() on a name that is in none of the eight slots of its window
\* returns a new string of the name's bytes.  If all eight are occupied the
\* cache is left as it is; if not, the string is stored in the first empty
\* slot of the window in probe order and no other slot changes.
C25_MissFrame ==
    [][(InternsNode /\ MissesWindow) =>
          /\ ReturnsFresh
          /\ IF EmptyPlaces = {}
             THEN name_cache' = name_cache
             ELSE LET k == CHOOSE k \in EmptyPlaces : \A h \in EmptyPlaces : k <= h
                  IN  /\ DOMAIN name_cache' = DOMAIN name_cache \cup {NodeWindow[k]}
                      /\ \A i \in DOMAIN name_cache' :
                            name_cache'[i] =
                                IF i = NodeWindow[k]
                                THEN [bytes |-> NodeName, gen |-> out'.gen]
                                ELSE name_cache[i]]_vars

\* the nine elements read backwards with name() called on each, twice on the
\* last, <bq/>: the eight slots from 508 on are occupied by the other names,
\* the second call made a second string and the cache does not hold the name
C25_Witness ==
    /\ doc[1] = 51
    /\ call = "name"
    /\ NodeName = <<98, 113>>
    /\ out.made
    /\ out.gen = 2
    /\ \A k \in 1..8 : SlotAt(name_cache, NodeWindow[k]).gen = 1
    /\ SlotsOf(name_cache, NodeName) = {}

\* the nine elements read forwards up to <yo/> with name() called on each:
\* the name's window begins at slot 1, and the string was stored in slot 3,
\* the first empty one
C25_StoredInFirstEmpty ==
    /\ doc[1] = 43
    /\ call = "name"
    /\ NodeName = <<121, 111>>
    /\ out.made
    /\ SlotAt(name_cache, 1).bytes = <<100, 115>>
    /\ SlotAt(name_cache, 2).bytes = <<107, 113>>
    /\ SlotAt(name_cache, 3) = [bytes |-> <<121, 111>>, gen |-> 1]

====
